---------------------------- MODULE Spec2Model ----------------------------
(***************************************************************************)
(* Model of the stateful decision layer of the hospital-corridor pipeline: *)
(* hybrid authorization (Backend/app/services/processing.py and            *)
(* Backend/app/db/qdrant_client.py), the entity tracker                    *)
(* (Backend/client/tracker/simple_tracker.py), the behaviour engine        *)
(* (Backend/app/services/event_engine.py) and the vehicle stage.           *)
(*                                                                         *)
(* Similarity scores are integers in thousandths (0.55 is 550): the store  *)
(* wrapper rounds every score to three decimals.  Time is an integer       *)
(* number of tenths of a second (30 s is 300).                             *)
(***************************************************************************)
EXTENDS Integers, Sequences, FiniteSets, TLC

VARIABLES
    h_in,       \* arguments of the authorize_person_hybrid call
    h_out,      \* its result (NoResult before the call)
    now,                 \* time.time() of the current frame
    person_states,       \* ProcessingService.person_states
    stranger_embeddings, \* ProcessingService.stranger_embeddings
    person_id_map,       \* ProcessingService.person_id_map
    next_person_id,      \* ProcessingService.next_person_id
    person_alerts,       \* alerts stored and broadcast by _generate_person_alert
    pending,             \* persons whose _check_authorization task is not finished
    last_check,          \* locals of the latest _check_authorization run
    frames,              \* frames processed so far
    tracks,       \* SimpleTracker.tracks, in insertion order
    next_uuid,    \* number of identifiers uuid4 has handed out
    frame_time,   \* frame_time of the latest SimpleTracker.update call
    tracked,      \* the list the latest update call returned
    assigned,     \* the assigned dict of that call, in insertion order
    calls,        \* update calls so far
    engine_time,           \* time.time() of the current behaviour step
    engine_trackers,       \* EventEngine._trackers, in insertion order
    pose_history,          \* EventEngine._pose_history
    last_cleanup,          \* EventEngine._last_cleanup
    last_crowd_alert_time, \* EventEngine._last_crowd_alert_time
    last_behavior_check,   \* ProcessingService.last_behavior_check
    is_aggressive,         \* ids whose person state has is_aggressive set
    behavior_alerts,       \* alerts stored and broadcast by _generate_behavior_alert
    last_analysis,         \* arguments and events of the latest analyze_frame call
    behavior_steps,        \* behaviour steps of the main loop so far
    aggression_log,        \* what each analyze_frame call saw of each active track
    vehicle_time,      \* time.time() of the current _process_vehicles call
    vehicle_positions, \* ProcessingService.vehicle_positions
    alert_cooldowns,   \* ProcessingService.alert_cooldowns["vehicle"]
    vehicle_alerts,    \* alerts stored and broadcast by _generate_vehicle_alert
    last_vehicle_run,  \* what the latest _process_vehicles call produced
    vehicle_frames,    \* _process_vehicles calls so far
    person_positions,  \* ProcessingService.person_positions
    behavior_tasks,    \* _check_person_behavior tasks of the gather: id -> bbox
    running,           \* ProcessingService.running
    loop_tasks,        \* the _initialize_and_run tasks created so far
    camera_running,    \* camera_stream.running
    last_call,         \* the latest of the start() and stop() calls
    iteration,         \* the iteration of _main_loop in progress: its stages
    finished,          \* the iterations of _main_loop that have ended
    bc_clients,        \* Broadcaster._clients
    bc_lock,           \* Broadcaster._lock: "free" or the coroutine holding it
    bc_gone,           \* the websockets that were removed from _clients
    bc_call,           \* the broadcast_json call in progress or just returned
    bc_calls,          \* broadcast_json calls so far
    h_calls,           \* calls of authorize_person_hybrid with the inputs h_in
    h_first,           \* the first of these calls: its result and the store's answer
    rule_call,         \* the latest call of evaluate_vehicle_rules on its own
    stats_today,       \* StatsService.stats_today: total, authorized, unauthorized, suspicious
    week_total,        \* StatsService.week_total
    stats_file,        \* the types of the entries of events.jsonl, oldest first
    stats_lock,        \* StatsService._lock: 0 or the thread holding it
    log_threads,       \* the worker threads running log_event
    person_gather,     \* the gather of _process_persons: "none", "waiting", "returned", "raised"
    camera_stream,     \* CameraStream: running, cap, its thread, the stop() call
    embed_engine       \* AsyncEmbedEngine: running, queue, its worker, the stop() call

hybridVars == <<h_in, h_out>>

personVars == <<now, person_states, stranger_embeddings, person_id_map,
                next_person_id, person_alerts, pending, last_check, frames>>

trackerVars == <<tracks, next_uuid, frame_time, tracked, assigned, calls>>

behaviorVars == <<engine_time, engine_trackers, pose_history, last_cleanup,
                  last_crowd_alert_time, last_behavior_check, is_aggressive,
                  behavior_alerts, last_analysis, behavior_steps, aggression_log>>

vehicleVars == <<vehicle_time, vehicle_positions, alert_cooldowns, vehicle_alerts,
                 last_vehicle_run, vehicle_frames>>

runningVars == <<person_positions, behavior_tasks>>

loopVars == <<running, loop_tasks, camera_running, last_call>>

stageVars == <<iteration, finished>>

broadcastVars == <<bc_clients, bc_lock, bc_gone, bc_call, bc_calls>>

repeatVars == <<h_calls, h_first>>

rulesVars == <<rule_call>>

statsVars == <<stats_today, week_total, stats_file, stats_lock, log_threads>>

gatherVars == <<person_gather>>

cameraVars == <<camera_stream>>

embedVars == <<embed_engine>>

vars == <<h_in, h_out, now, person_states, stranger_embeddings, person_id_map,
          next_person_id, person_alerts, pending, last_check, frames,
          tracks, next_uuid, frame_time, tracked, assigned, calls,
          engine_time, engine_trackers, pose_history, last_cleanup,
          last_crowd_alert_time, last_behavior_check, is_aggressive,
          behavior_alerts, last_analysis, behavior_steps, aggression_log,
          vehicle_time, vehicle_positions, alert_cooldowns, vehicle_alerts,
          last_vehicle_run, vehicle_frames, person_positions, behavior_tasks,
          running, loop_tasks, camera_running, last_call, iteration, finished,
          bc_clients, bc_lock, bc_gone, bc_call, bc_calls, h_calls, h_first,
          rule_call, stats_today, week_total, stats_file, stats_lock, log_threads,
          person_gather, camera_stream, embed_engine>>

-----------------------------------------------------------------------------
(* Generic helpers *)

Range(s) == {s[i] : i \in 1..Len(s)}

Max2(a, b) == IF a >= b THEN a ELSE b

Min2(a, b) == IF a <= b THEN a ELSE b

Abs(a) == IF a < 0 THEN -a ELSE a

-----------------------------------------------------------------------------
(* Similarity store wrapper: search_staff_hybrid *)

ARCFACE_AUTH_THRESHOLD == 550

CLIP_AUTH_THRESHOLD == 900

CLIP_SANITY_THRESHOLD == 750

SEARCH_LIMIT == 5

\* bounds of the store responses that are enumerated
MaxPoints == 2

StaffIds == {"s1", "s2"}

ClipScores == {700, 750, 900, 920}

ArcScores == {-100, 0, 549, 550, 600}

\* one point returned by the store's query: res.score, the cosine of the
\* query face with the stored face (when the point has an arcface vector)
\* and the payload
StorePoints ==
    [staff_id : StaffIds, score : ClipScores, has_arcface : {TRUE},
     arcface : ArcScores, authorized : BOOLEAN]
    \cup
    [staff_id : StaffIds, score : ClipScores, has_arcface : {FALSE},
     arcface : {0}, authorized : BOOLEAN]

\* the store answers a query with points in descending order of score
IsScoreSorted(s) == \A i \in 1..(Len(s) - 1) : s[i].score >= s[i + 1].score

StoreResponses(limit) ==
    {s \in UNION {[1..n -> StorePoints] : n \in 0..limit} : IsScoreSorted(s)}

\* list.sort(key=..., reverse=True) is stable: an element goes behind every
\* element whose key is greater or equal
RECURSIVE InsertDesc(_, _, _)
InsertDesc(sorted, x, key) ==
    IF sorted = <<>> THEN <<x>>
    ELSE IF Head(sorted)[key] >= x[key]
         THEN <<Head(sorted)>> \o InsertDesc(Tail(sorted), x, key)
         ELSE <<x>> \o sorted

RECURSIVE SortDesc(_, _)
SortDesc(s, key) ==
    IF s = <<>> THEN <<>>
    ELSE InsertDesc(SortDesc(SubSeq(s, 1, Len(s) - 1), key), s[Len(s)], key)

\* keep the first candidate of every staff_id
RECURSIVE Dedup(_, _)
Dedup(s, seen) ==
    IF s = <<>> THEN <<>>
    ELSE IF Head(s).staff_id \in seen
         THEN Dedup(Tail(s), seen)
         ELSE <<Head(s)>> \o Dedup(Tail(s), seen \cup {Head(s).staff_id})

Candidate(res, hasArc) ==
    [staff_id      |-> res.staff_id,
     clip_score    |-> res.score,
     arcface_score |-> IF hasArc /\ res.has_arcface THEN res.arcface ELSE 0,
     authorized    |-> res.authorized]

\* points: the store's answer; failed: the query raised (or timed out)
search_staff_hybrid(points, hasArc, failed) ==
    IF failed \/ points = <<>> THEN <<>>
    ELSE LET scored == [i \in 1..Len(points) |-> Candidate(points[i], hasArc)]
             sorted == IF hasArc THEN SortDesc(scored, "arcface_score")
                                 ELSE SortDesc(scored, "clip_score")
             unique == Dedup(sorted, {})
         IN  SubSeq(unique, 1, Min2(Len(unique), SEARCH_LIMIT))

-----------------------------------------------------------------------------
(* authorize_person_hybrid *)

ArcfacePathMutant(hasArc, arcface_score) == hasArc /\ arcface_score >= 0

\* the guard of the precise branch
ArcfacePath(hasArc, arcface_score) == hasArc /\ arcface_score > 0

SanityOkMutant(clip_score) == clip_score > CLIP_SANITY_THRESHOLD

SanityOk(clip_score) == clip_score >= CLIP_SANITY_THRESHOLD

\* method is the match_method the function logs
authorize_person_hybrid(points, hasArc, failed) ==
    LET results == search_staff_hybrid(points, hasArc, failed)
    IN  IF results = <<>>
        THEN [authorized |-> FALSE, score |-> 0, name |-> "Unauthorized",
              method |-> "none"]
        ELSE LET top == results[1]
                 arcface_score == top.arcface_score
                 clip_score == top.clip_score
                 viaArc == /\ ArcfacePath(hasArc, arcface_score)
                           /\ arcface_score >= ARCFACE_AUTH_THRESHOLD
                           /\ SanityOk(clip_score)
                 viaClip == /\ ~ArcfacePath(hasArc, arcface_score)
                            /\ clip_score >= CLIP_AUTH_THRESHOLD
                 is_authorized == viaArc \/ viaClip
                 final_score == IF viaArc THEN arcface_score ELSE clip_score
                 match_method == IF viaArc THEN "arcface"
                                 ELSE IF viaClip THEN "clip" ELSE "none"
             IN  IF is_authorized /\ top.authorized
                 THEN [authorized |-> TRUE, score |-> final_score,
                       name |-> top.staff_id, method |-> match_method]
                 ELSE [authorized |-> FALSE, score |-> final_score,
                       name |-> "Unauthorized", method |-> match_method]

-----------------------------------------------------------------------------
(* Specification of the authorization function: any call, any store answer *)

NoResult == [authorized |-> FALSE, score |-> 0, name |-> "none", method |-> "none"]

HybridCall ==
    /\ ~h_in.called
    /\ h_in' = [h_in EXCEPT !.called = TRUE]
    /\ h_out' = authorize_person_hybrid(h_in.points, h_in.hasArc, h_in.failed)
    /\ UNCHANGED <<personVars, trackerVars, behaviorVars, vehicleVars, runningVars, loopVars, stageVars, broadcastVars, repeatVars, rulesVars, statsVars, gatherVars, cameraVars, embedVars>>

\* bounds
MaxRepeats == 3

StoreAfterQueryMutant(points) == IF points = <<>> THEN points ELSE Tail(points)

\* query_points reads the collection: the store answers the same query with
\* the same points afterwards
StoreAfterQuery(points) == points

\* one more call with the embeddings and against the store of h_in
HybridRepeat ==
    /\ h_calls < MaxRepeats
    /\ \E r \in {authorize_person_hybrid(h_in.points, h_in.hasArc, h_in.failed)} :
         /\ h_out' = r
         /\ h_first' = IF h_calls = 0 THEN [out |-> r, points |-> h_in.points]
                       ELSE h_first
    /\ h_in' = [h_in EXCEPT !.called = TRUE, !.points = StoreAfterQuery(@)]
    /\ h_calls' = h_calls + 1
    /\ UNCHANGED <<personVars, trackerVars, behaviorVars, vehicleVars, runningVars, loopVars, stageVars, broadcastVars, rulesVars, statsVars, gatherVars, cameraVars, embedVars>>

\* the top candidate the call decided on
h_results == search_staff_hybrid(h_in.points, h_in.hasArc, h_in.failed)

h_top == h_results[1]

-----------------------------------------------------------------------------
(* Person stage of ProcessingService: _update_person_states,               *)
(* _process_persons, _check_authorization, _generate_person_alert          *)

\* time unit: a tenth of a second
RE_AUTH_INTERVAL == 30

UNAUTH_RECHECK_INTERVAL == 20

PERSON_GRACE == 50

ALERT_GRACE == 5

STRANGER_SIMILARITY == 850

STRANGER_RETENTION == 36000

\* the clock when the service starts
T0 == 1000

\* bounds
MaxFrames == 3

TrackIds == {1, 2}

Embeddings == {1, 2}

FrameGaps == {1, 60}

\* np.dot of two L2-normalised coarse embeddings, in thousandths
Dot(a, b) == IF a = b THEN 1000 ELSE 850

\* what the perception of one person can be: whether a genuine face
\* embedding is found and what the store holds for the query
PersonQueries ==
    { [hasArc |-> TRUE,
       points |-> <<[staff_id |-> "s1", score |-> 920, has_arcface |-> TRUE,
                     arcface |-> 600, authorized |-> TRUE]>>],
      [hasArc |-> FALSE,
       points |-> <<[staff_id |-> "s1", score |-> 750, has_arcface |-> TRUE,
                     arcface |-> 549, authorized |-> TRUE]>>] }

\* first_verdict is not a key of the state: it records the first verdict
\* _check_authorization wrote to it
NewPersonState(track_id, display_id, current_time) ==
    [id |-> track_id, display_id |-> display_id,
     first_seen |-> current_time, last_seen |-> current_time,
     authorized |-> "scanning", embedding |-> 0, last_auth_check |-> 0,
     auth_score |-> 0, is_returning_stranger |-> FALSE,
     last_behavior_alert |-> 0, last_zone_alert |-> 0,
     first_verdict |-> "none"]

\* display ids handed out as if the entry of person_id_map went with the state
RECURSIVE AssignDisplayIdsMutant(_, _, _)
AssignDisplayIdsMutant(ids, map, next) ==
    IF ids = <<>> THEN [map |-> map, next |-> next]
    ELSE AssignDisplayIdsMutant(Tail(ids),
                                [t \in DOMAIN map \cup {Head(ids)} |->
                                    IF t = Head(ids) THEN next ELSE map[t]],
                                next + 1)

\* display ids are handed out in the iteration order of the tracked list;
\* ids is the sequence of its track ids
RECURSIVE AssignDisplayIds(_, _, _)
AssignDisplayIds(ids, map, next) ==
    IF ids = <<>> THEN [map |-> map, next |-> next]
    ELSE IF Head(ids) \in DOMAIN map
         THEN AssignDisplayIds(Tail(ids), map, next)
         ELSE AssignDisplayIds(Tail(ids),
                               [t \in DOMAIN map \cup {Head(ids)} |->
                                   IF t = Head(ids) THEN next ELSE map[t]],
                               next + 1)

GraceExpired(state, current_time) == current_time - state.last_seen > PERSON_GRACE

\* _update_person_states: the states after the merge and the clean-up
UpdatedPersonStates(states, ids, map, current_time) ==
    LET active == Range(ids)
        kept == {t \in DOMAIN states :
                    t \in active \/ ~GraceExpired(states[t], current_time)}
    IN  [t \in kept \cup active |->
            IF t \in DOMAIN states
            THEN IF t \in active
                 THEN [states[t] EXCEPT !.last_seen = current_time]
                 ELSE states[t]
            ELSE NewPersonState(t, map[t], current_time)]

NeedsAuthMutant(person, current_time) ==
    IF person.authorized = "scanning" THEN TRUE
    ELSE IF person.authorized = "unauthorized"
         THEN current_time - person.last_auth_check >= UNAUTH_RECHECK_INTERVAL
         ELSE current_time - person.last_auth_check > RE_AUTH_INTERVAL * 2

\* _process_persons: does the person get an authorization task this frame
NeedsAuth(person, current_time) ==
    IF person.authorized = "scanning" THEN TRUE
    ELSE IF person.authorized = "unauthorized"
         THEN current_time - person.last_auth_check >= UNAUTH_RECHECK_INTERVAL
         ELSE current_time - person.last_auth_check >= RE_AUTH_INTERVAL * 2

NoCheck == [ran |-> FALSE, id |-> 0, store_failed |-> FALSE,
            previous_status |-> "scanning", verdict |-> FALSE, alerted |-> FALSE]

\* one pass of the main loop up to the gather of _process_persons: the
\* tracker's output (tracked), the state merge, the task list
PersonFrame ==
    \E gap \in FrameGaps, visible \in UNION {[1..n -> TrackIds] : n \in 0..Cardinality(TrackIds)} :
        /\ pending = {}
        /\ frames < MaxFrames
        /\ \A i, j \in 1..Len(visible) : i # j => visible[i] # visible[j]
        /\ LET current_time == now + gap
               ids == AssignDisplayIds(
                          SelectSeq(visible, LAMBDA t : t \notin DOMAIN person_states),
                          person_id_map, next_person_id)
               states == UpdatedPersonStates(person_states, visible, ids.map,
                                             current_time)
           IN  /\ now' = current_time
               /\ person_id_map' = ids.map
               /\ next_person_id' = ids.next
               /\ person_states' = states
               /\ pending' = {t \in Range(visible) :
                                 NeedsAuth(states[t], current_time)}
        /\ frames' = frames + 1
        /\ last_check' = NoCheck
        /\ UNCHANGED <<stranger_embeddings, person_alerts>>
        /\ UNCHANGED <<hybridVars, trackerVars, behaviorVars, vehicleVars, runningVars, loopVars, stageVars, broadcastVars, repeatVars, rulesVars, statsVars, gatherVars, cameraVars, embedVars>>

IsKnownStrangerMutant(similarity) == similarity >= STRANGER_SIMILARITY

\* np.dot(clip_embedding, stranger["embedding"]) > 0.85
IsKnownStranger(similarity) == similarity > STRANGER_SIMILARITY

\* index of the first cache entry the embedding matches, 0 if none
FirstStranger(cache, embedding) ==
    LET hits == {i \in 1..Len(cache) :
                    IsKnownStranger(Dot(embedding, cache[i].embedding))}
    IN  IF hits = {} THEN 0 ELSE CHOOSE i \in hits : \A j \in hits : i <= j

PurgeStrangers(cache, current_time) ==
    SelectSeq(cache, LAMBDA s : current_time - s.timestamp < STRANGER_RETENTION)

\* _check_authorization stops before the verdict: the crop is too small, or
\* an embedder raises
CheckAuthorizationSkipped(p) ==
    /\ p \in pending
    /\ pending' = pending \ {p}
    /\ person_states' = [person_states EXCEPT ![p].last_auth_check = now]
    /\ last_check' = NoCheck
    /\ UNCHANGED <<now, stranger_embeddings, person_id_map, next_person_id,
                   person_alerts, frames>>
    /\ UNCHANGED <<hybridVars, trackerVars, behaviorVars, vehicleVars, runningVars, loopVars, stageVars, broadcastVars, repeatVars, rulesVars, statsVars, gatherVars, cameraVars, embedVars>>

IsNewUnauthorizedMutant(previous_status, returning, seen_for) ==
    /\ ~returning
    /\ seen_for >= ALERT_GRACE

\* if previous_status is not False and not person.get("is_returning_stranger"):
\*     if current_time - person["first_seen"] >= 0.5:
IsNewUnauthorized(previous_status, returning, seen_for) ==
    /\ previous_status # "unauthorized"
    /\ ~returning
    /\ seen_for >= ALERT_GRACE

\* _check_authorization reaches authorize_person_hybrid
CheckAuthorization(p) ==
    \E clip_embedding \in Embeddings, query \in PersonQueries,
       failed \in BOOLEAN :
        /\ p \in pending
        /\ pending' = pending \ {p}
        /\ LET person == person_states[p]
               auth_result == authorize_person_hybrid(query.points, query.hasArc,
                                                      failed)
               previous_status == person.authorized
               hit == FirstStranger(stranger_embeddings, clip_embedding)
               returning == person.is_returning_stranger \/ hit > 0
               alert == /\ ~auth_result.authorized
                        /\ IsNewUnauthorized(previous_status, returning,
                                             now - person.first_seen)
           IN  /\ person_states' = [person_states EXCEPT ![p] =
                      [person EXCEPT
                          !.last_auth_check = now,
                          !.authorized = IF auth_result.authorized
                                         THEN "authorized" ELSE "unauthorized",
                          !.first_verdict =
                              IF @ # "none" THEN @
                              ELSE IF auth_result.authorized
                                   THEN "authorized" ELSE "unauthorized",
                          !.embedding = clip_embedding,
                          !.auth_score = auth_result.score,
                          !.is_returning_stranger =
                              IF auth_result.authorized
                              THEN person.is_returning_stranger
                              ELSE returning]]
               /\ stranger_embeddings' =
                      IF auth_result.authorized THEN stranger_embeddings
                      ELSE IF hit > 0
                           THEN [stranger_embeddings EXCEPT ![hit].timestamp = now]
                           ELSE PurgeStrangers(
                                    Append(stranger_embeddings,
                                           [embedding |-> clip_embedding,
                                            timestamp |-> now]), now)
               /\ person_alerts' =
                      IF alert
                      THEN Append(person_alerts,
                                  [type |-> "UNAUTHORIZED_PERSON",
                                   person_id |-> p, timestamp |-> now])
                      ELSE person_alerts
               /\ last_check' = [ran |-> TRUE, id |-> p,
                                 store_failed |-> failed,
                                 previous_status |-> previous_status,
                                 verdict |-> auth_result.authorized,
                                 alerted |-> alert]
        /\ UNCHANGED <<now, person_id_map, next_person_id, frames>>
        /\ UNCHANGED <<hybridVars, trackerVars, behaviorVars, vehicleVars, runningVars, loopVars, stageVars, broadcastVars, repeatVars, rulesVars, statsVars, gatherVars, cameraVars, embedVars>>

PersonNext ==
    \/ PersonFrame
    \/ \E p \in TrackIds : CheckAuthorizationSkipped(p)
    \/ \E p \in TrackIds : CheckAuthorization(p)

-----------------------------------------------------------------------------
(* Entity tracker: SimpleTracker (Backend/client/tracker/simple_tracker.py) *)

\* iou_threshold 0.3 as a fraction
IOU_THRESHOLD_NUM == 3

IOU_THRESHOLD_DEN == 10

\* the person tracker: max_distance 150 px, max_age 30 s
MAX_DISTANCE == 150

MAX_AGE == 300

\* bounds
MaxDets == 2

MaxCalls == 2

\* boxes <<x1, y1, x2, y2>> the detector reports
Boxes == { <<0, 0, 40, 120>>,      \* an upright person
           <<5, 5, 45, 125>>,      \* the same person moved by (5, 5)
           <<15, 50, 25, 70>>,     \* a small box around the first one's centre
           <<150, 0, 190, 120>> }  \* a person exactly 150 px to the right

CallGaps == {300, 301}

Area(b) == (b[3] - b[1]) * (b[4] - b[2])

Intersection(a, b) ==
    Max2(0, Min2(a[3], b[3]) - Max2(a[1], b[1]))
        * Max2(0, Min2(a[4], b[4]) - Max2(a[2], b[2]))

\* iou(a, b) as the fraction num / den
iou(a, b) ==
    LET inter == Intersection(a, b)
    IN  [num |-> inter, den |-> Area(a) + Area(b) - inter]

FracGE(f, num, den) == f.num * den >= num * f.den

FracGT(f, g) == f.num * g.den > g.num * f.den

\* bbox_center(b), doubled: <<x1 + x2, y1 + y2>> is twice the centre
bbox_center(b) == <<b[1] + b[3], b[2] + b[4]>>

\* square of twice the distance of two centres
Dist2(c, d) == (c[1] - d[1]) * (c[1] - d[1]) + (c[2] - d[2]) * (c[2] - d[2])

IouAcceptsMutant(val, best) ==
    FracGE(val, IOU_THRESHOLD_NUM, IOU_THRESHOLD_DEN)

\* val >= self.iou_threshold and val > best_iou
IouAccepts(val, best) ==
    FracGE(val, IOU_THRESHOLD_NUM, IOU_THRESHOLD_DEN) /\ FracGT(val, best)

UsedIndexesMutant(asg) == {}

\* assigned.values(): the detections that are taken
UsedIndexes(asg) == {asg[j][2] : j \in 1..Len(asg)}

\* the first loop over the detections: best is [idx, iou]
RECURSIVE IouScan(_, _, _, _, _)
IouScan(tbox, dets, used, i, best) ==
    IF i > Len(dets) THEN best
    ELSE IF i \in used THEN IouScan(tbox, dets, used, i + 1, best)
    ELSE LET val == iou(tbox, dets[i])
         IN  IF IouAccepts(val, best.iou)
             THEN IouScan(tbox, dets, used, i + 1, [idx |-> i, iou |-> val])
             ELSE IouScan(tbox, dets, used, i + 1, best)

DistAcceptsMutant(dist2, best2) == dist2 <= best2

\* dist < best_dist, on the squares of the doubled distances
DistAccepts(dist2, best2) == dist2 < best2

\* the fallback loop: best is [idx, dist2]
RECURSIVE DistScan(_, _, _, _, _)
DistScan(tbox, dets, used, i, best) ==
    IF i > Len(dets) THEN best
    ELSE IF i \in used THEN DistScan(tbox, dets, used, i + 1, best)
    ELSE LET dist2 == Dist2(bbox_center(tbox), bbox_center(dets[i]))
         IN  IF DistAccepts(dist2, best.dist2)
             THEN DistScan(tbox, dets, used, i + 1, [idx |-> i, dist2 |-> dist2])
             ELSE DistScan(tbox, dets, used, i + 1, best)

\* the tracker without the centroid fallback
BestMatchMutant(tbox, dets, used) ==
    [idx |-> IouScan(tbox, dets, used, 1,
                     [idx |-> 0, iou |-> [num |-> 0, den |-> 1]]).idx,
     by_iou |-> TRUE]

\* the detection a track takes among the unassigned ones, 0 if none;
\* by_iou tells which loop found it
BestMatch(tbox, dets, used) ==
    LET byIou == IouScan(tbox, dets, used, 1,
                         [idx |-> 0, iou |-> [num |-> 0, den |-> 1]])
    IN  IF byIou.idx # 0 THEN [idx |-> byIou.idx, by_iou |-> TRUE]
        ELSE [idx |-> DistScan(tbox, dets, used, 1,
                               [idx |-> 0,
                                dist2 |-> 4 * MAX_DISTANCE * MAX_DISTANCE]).idx,
              by_iou |-> FALSE]

\* maxlen of the deque a track keeps its history in
TRACK_HISTORY_MAXLEN == 128

\* deque.append on a deque with maxlen: the oldest sample goes when it is full
DequeAppend(history, sample) ==
    IF Len(history) < TRACK_HISTORY_MAXLEN THEN Append(history, sample)
    ELSE Append(Tail(history), sample)

\* "Match existing tracks": asg (the dict assigned) is the sequence of <<track id, index>>
\* pairs in the order of assignment
RECURSIVE MatchTracks(_, _, _, _, _)
MatchTracks(trks, k, dets, t, asg) ==
    IF k > Len(trks) THEN [tracks |-> trks, assigned |-> asg]
    ELSE LET m == BestMatch(trks[k].bbox, dets, UsedIndexes(asg))
         IN  IF m.idx = 0 THEN MatchTracks(trks, k + 1, dets, t, asg)
             ELSE MatchTracks(
                      [trks EXCEPT ![k].bbox = dets[m.idx],
                                   ![k].last_seen = t,
                                   ![k].history =
                                       DequeAppend(@, <<t, bbox_center(dets[m.idx])>>)],
                      k + 1, dets, t, Append(asg, <<trks[k].id, m.idx>>))

\* "Create new tracks"
RECURSIVE CreateTracks(_, _, _, _, _, _)
CreateTracks(trks, next, dets, i, t, asg) ==
    IF i > Len(dets) THEN [tracks |-> trks, next |-> next, assigned |-> asg]
    ELSE IF i \in UsedIndexes(asg)
         THEN CreateTracks(trks, next, dets, i + 1, t, asg)
         ELSE CreateTracks(
                  Append(trks, [id |-> next + 1, bbox |-> dets[i],
                                first_seen |-> t, last_seen |-> t,
                                history |-> <<<<t, bbox_center(dets[i])>>>>]),
                  next + 1, dets, i + 1, t, Append(asg, <<next + 1, i>>))

ExpiredMutant(trk, t) == t - trk.last_seen >= MAX_AGE

\* frame_time - t['last_seen'] > self.max_age
Expired(trk, t) == t - trk.last_seen > MAX_AGE

\* idx_to_tid.get(idx): the last pair of the index wins, 0 stands for None
TidOf(asg, i) ==
    LET js == {j \in 1..Len(asg) : asg[j][2] = i}
    IN  IF js = {} THEN 0
        ELSE asg[CHOOSE j \in js : \A k \in js : k <= j][1]

\* SimpleTracker.update(detections, frame_time)
update(trks, next, dets, t) ==
    LET matched == MatchTracks(trks, 1, dets, t, <<>>)
        created == CreateTracks(matched.tracks, next, dets, 1, t, matched.assigned)
        alive == SelectSeq(created.tracks, LAMBDA trk : ~Expired(trk, t))
    IN  [tracks |-> alive,
         next |-> created.next,
         assigned |-> created.assigned,
         out |-> [i \in 1..Len(dets) |->
                     [bbox |-> dets[i], track_id |-> TidOf(created.assigned, i)]]]

\* detections of one frame: the detector reports a box once
FrameDetections ==
    {d \in UNION {[1..n -> Boxes] : n \in 0..MaxDets} :
        \A i, j \in 1..Len(d) : i # j => d[i] # d[j]}

TrackerUpdate ==
    \E gap \in CallGaps, dets \in FrameDetections :
        /\ calls < MaxCalls
        /\ \E r \in {update(tracks, next_uuid, dets, frame_time + gap)} :
               /\ tracks' = r.tracks
               /\ next_uuid' = r.next
               /\ tracked' = r.out
               /\ assigned' = r.assigned
        /\ frame_time' = frame_time + gap
        /\ calls' = calls + 1
        /\ UNCHANGED <<hybridVars, personVars, behaviorVars, vehicleVars, runningVars, loopVars, stageVars, broadcastVars, repeatVars, rulesVars, statsVars, gatherVars, cameraVars, embedVars>>

TrackerNext == TrackerUpdate

\* A long watch of one person who stands still: one update call per frame,
\* 0.1 s after the call before (0.1 or 0.2 s for the first frames)
MaxHistoryCalls == 31

MaxJitterCalls == 7

HistoryGaps(n) == IF n < MaxJitterCalls THEN {1, 2} ELSE {1}

HistoryUpdate ==
    \E gap \in HistoryGaps(calls) :
        /\ calls < MaxHistoryCalls
        /\ \E r \in {update(tracks, next_uuid, << <<0, 0, 40, 120>> >>, frame_time + gap)} :
               /\ tracks' = r.tracks
               /\ next_uuid' = r.next
               /\ tracked' = r.out
               /\ assigned' = r.assigned
        /\ frame_time' = frame_time + gap
        /\ calls' = calls + 1
        /\ UNCHANGED <<hybridVars, personVars, behaviorVars, vehicleVars, runningVars, loopVars, stageVars, broadcastVars, repeatVars, rulesVars, statsVars, gatherVars, cameraVars, embedVars>>

-----------------------------------------------------------------------------
(* Behaviour engine: EventEngine.analyze_frame, aggression_rules and the   *)
(* orchestrator's _analyze_behaviors.                                      *)
(*                                                                         *)
(* A centre is kept doubled, <<x1 + x2, y1 + y2>>, so the length of a path *)
(* of positions is twice its length in pixels.  The frames of the model    *)
(* keep the centres of the persons on one line of slope 4/3 and the wrists *)
(* on another, so every distance the engine takes a square root of is an   *)
(* integer.  A speed is a fraction [num, den] in pixels per second.        *)

LOITERING_THRESHOLD_SECS == 3000

RUNNING_VELOCITY_THRESHOLD == 200

CROWD_PERSON_THRESHOLD == 3

CROWD_DISTANCE_THRESHOLD == 150

\* FALL_VERTICAL_RATIO_THRESHOLD, 0.5, is FALL_RATIO_NUM / FALL_RATIO_DEN
FALL_RATIO_NUM == 1

FALL_RATIO_DEN == 2

POSE_CONFIDENCE_THRESHOLD == 400

CROWD_ALERT_COOLDOWN == 600

\* seconds between two _cleanup_old_trackers runs
CLEANUP_INTERVAL == 100

\* max_age of _cleanup_old_trackers
ENGINE_MAX_AGE == 300

\* positions, wrist samples and poses kept per track
HISTORY_CAP == 30

VELOCITY_WINDOW == 5

STATIONARY_WINDOW == 10

STATIONARY_PIXELS == 30

\* least visibility of a wrist landmark that is recorded
WRIST_VISIBILITY == 300

ARM_SPEED_THRESHOLD == 110

CLOSE_DISTANCE == 150

MIN_DURATION == 5

MIN_HITS == 15

BEHAVIOR_CHECK_INTERVAL == 2

ALERT_COOLDOWN_BEHAVIOR == 300

\* main-loop iterations of the behaviour stage
MaxBehaviorSteps == 2

BehaviorGaps == {1, 2, 600}

\* an upright person whose centre is 25 * k pixels along the line
StandingBox(k) == <<100 + 15 * k, 100 + 20 * k, 140 + 15 * k, 220 + 20 * k>>

\* a person lying down, centred where StandingBox(0) is
LyingBox == <<60, 140, 180, 180>>

Absent == <<>>

\* the persons of a frame: track 1 stands, has moved 50 px or lies down,
\* track 2 stands 25 px from it, track 3 is absent, 75 px or 225 px away
PersonLists ==
    { SelectSeq(<<[id |-> 1, bbox |-> b1], [id |-> 2, bbox |-> StandingBox(1)],
                  [id |-> 3, bbox |-> b3]>>,
                LAMBDA p : p.bbox # Absent) :
        b1 \in {StandingBox(0), StandingBox(2), LyingBox},
        b3 \in {Absent, StandingBox(3), StandingBox(9)} }

\* the pose of a crop: none or one without landmarks, or landmarks that all
\* have the given visibility with the wrists at lw and rw
Poses ==
    { [landmarks |-> FALSE, visibility |-> 0, lw |-> <<0, 0>>, rw |-> <<0, 0>>],
      [landmarks |-> TRUE, visibility |-> 900, lw |-> <<10, 10>>, rw |-> <<5, 60>>],
      [landmarks |-> TRUE, visibility |-> 900, lw |-> <<40, 50>>, rw |-> <<5, 60>>] }

ZeroSpeed == [num |-> 0, den |-> 1]

Whole(n) == [num |-> n, den |-> 1]

FracLT(f, g) == f.num * g.den < g.num * f.den

\* max(f, g) of two speeds
FracMax(f, g) == IF FracGT(g, f) THEN g ELSE f

\* math.sqrt(dx ** 2 + dy ** 2), math.hypot(dx, dy)
Hypot(dx, dy) == CHOOSE r \in 0..(Abs(dx) + Abs(dy)) : r * r = dx * dx + dy * dy

LastN(s, n) == IF Len(s) > n THEN SubSeq(s, Len(s) - n + 1, Len(s)) ELSE s

\* the sum of the distances between consecutive positions <<x, y, t>>
RECURSIVE PathLength(_)
PathLength(ps) ==
    IF Len(ps) < 2 THEN 0
    ELSE Hypot(ps[2][1] - ps[1][1], ps[2][2] - ps[1][2]) + PathLength(Tail(ps))

EngineCenter(bbox) == <<bbox[1] + bbox[3], bbox[2] + bbox[4]>>

PersonTracker(track_id, center, timestamp, bbox) ==
    [id |-> track_id,
     positions |-> << <<center[1], center[2], timestamp>> >>,
     left_wrist_history |-> <<>>,
     right_wrist_history |-> <<>>,
     first_seen |-> timestamp,
     last_seen |-> timestamp,
     velocity |-> ZeroSpeed,
     current_bbox |-> bbox]

\* PersonTracker._calculate_velocity on at least two positions
calculate_velocity(positions) ==
    LET recent == LastN(positions, VELOCITY_WINDOW)
        time_span == recent[Len(recent)][3] - recent[1][3]
    IN  IF time_span > 0
        THEN [num |-> PathLength(recent) * 10, den |-> 2 * time_span]
        ELSE ZeroSpeed

WristSamples(history, pose, wrist, timestamp) ==
    IF pose.landmarks /\ pose.visibility > WRIST_VISIBILITY
    THEN LastN(Append(history, <<wrist[1], wrist[2], timestamp>>), HISTORY_CAP)
    ELSE history

\* PersonTracker.update
tracker_update(trk, center, timestamp, bbox, pose) ==
    LET positions == LastN(Append(trk.positions,
                                  <<center[1], center[2], timestamp>>),
                           HISTORY_CAP)
    IN  [trk EXCEPT
            !.positions = positions,
            !.last_seen = timestamp,
            !.current_bbox = bbox,
            !.left_wrist_history = WristSamples(@, pose, pose.lw, timestamp),
            !.right_wrist_history = WristSamples(@, pose, pose.rw, timestamp),
            !.velocity = IF Len(positions) >= 2
                         THEN calculate_velocity(positions) ELSE @]

\* PersonTracker.get_stationary_time
get_stationary_time(trk) ==
    LET recent == LastN(trk.positions, STATIONARY_WINDOW)
    IN  IF Len(trk.positions) < 2 THEN 0
        ELSE IF PathLength(recent) < 2 * STATIONARY_PIXELS
             THEN trk.last_seen - trk.first_seen
             ELSE 0

\* PersonTracker.to_dict: a fresh dictionary on every call
to_dict(trk) ==
    [id |-> trk.id,
     center |-> <<trk.positions[Len(trk.positions)][1],
                  trk.positions[Len(trk.positions)][2]>>,
     velocity |-> trk.velocity,
     bbox |-> trk.current_bbox,
     left_wrist_history |-> trk.left_wrist_history,
     right_wrist_history |-> trk.right_wrist_history,
     first_seen |-> trk.first_seen,
     last_seen |-> trk.last_seen]

\* an event of the engine; track_id 0 stands for an event without a track_id
Event(type, track_id) ==
    [type |-> type, track_id |-> track_id, person_count |-> 0,
     is_clustered |-> FALSE]

NoEvent == Event("none", 0)

\* aggression_rules.wrist_speed: the time difference is at least 0.01 s
wrist_speed(history) ==
    IF Len(history) < 2 THEN ZeroSpeed
    ELSE LET a == history[Len(history) - 1]
             b == history[Len(history)]
         IN  [num |-> Hypot(b[1] - a[1], b[2] - a[2]) * 100,
              den |-> Max2((b[3] - a[3]) * 10, 1)]

TrackSpeed(track) ==
    FracMax(wrist_speed(track.left_wrist_history),
            wrist_speed(track.right_wrist_history))

\* track["aggr_hits"] = track.get("aggr_hits", 0) + 1
CountedHits(track) ==
    (IF "aggr_hits" \in DOMAIN track THEN track.aggr_hits ELSE 0) + 1

\* the hit counter evaluate_aggression leaves in the dictionary: popped (0)
\* below the threshold, counted up otherwise
HitsLeft(track) ==
    IF FracLT(TrackSpeed(track), Whole(ARM_SPEED_THRESHOLD)) THEN 0
    ELSE CountedHits(track)

HitsReachedMutant(aggr_hits) == aggr_hits >= 1

\* not (track["aggr_hits"] < MIN_HITS)
HitsReached(aggr_hits) == aggr_hits >= MIN_HITS

\* aggression_rules.evaluate_aggression; the hit counter and the start of the
\* window are read from, and written to, the dictionary it is handed
evaluate_aggression(track, nearby_tracks, t) ==
    LET speed == TrackSpeed(track)
        aggr_hits == CountedHits(track)
        aggr_start == IF "aggr_start" \in DOMAIN track THEN track.aggr_start ELSE t
        active_nearby ==
            {j \in 1..Len(nearby_tracks) :
                /\ Hypot(track.center[1] - nearby_tracks[j].center[1],
                         track.center[2] - nearby_tracks[j].center[2])
                     < 2 * CLOSE_DISTANCE
                /\ FracGT(TrackSpeed(nearby_tracks[j]),
                          [num |-> 7 * ARM_SPEED_THRESHOLD, den |-> 10])}
    IN  IF FracLT(speed, Whole(ARM_SPEED_THRESHOLD)) THEN NoEvent
        ELSE IF ~HitsReached(aggr_hits) THEN NoEvent
        ELSE IF Cardinality(active_nearby) >= 1
             THEN Event("FIGHT_DETECTED", track.id)
        ELSE IF t - aggr_start >= MIN_DURATION
             THEN Event("AGGRESSIVE_BEHAVIOR", track.id)
        ELSE NoEvent

\* the latest pose stored for the track has landmarks of mean visibility
\* above POSE_CONFIDENCE_THRESHOLD
PoseReliable(ph, track_id) ==
    /\ track_id \in DOMAIN ph
    /\ ph[track_id] # <<>>
    /\ LET latest_pose == ph[track_id][Len(ph[track_id])].pose
       IN  latest_pose.landmarks /\ latest_pose.visibility > POSE_CONFIDENCE_THRESHOLD

\* EventEngine._detect_aggression
detect_aggression(active_trackers, ph, t) ==
    LET track_dicts == [k \in 1..Len(active_trackers) |-> to_dict(active_trackers[k])]
        evaluated == [k \in 1..Len(track_dicts) |->
            IF PoseReliable(ph, track_dicts[k].id)
            THEN evaluate_aggression(
                     track_dicts[k],
                     SelectSeq(track_dicts, LAMBDA o : o.id # track_dicts[k].id),
                     t)
            ELSE NoEvent]
    IN  SelectSeq(evaluated, LAMBDA e : e # NoEvent)

\* EventEngine._cleanup_old_trackers
cleanup_old_trackers(trks, t) ==
    SelectSeq(trks, LAMBDA trk : ~(t - trk.last_seen > ENGINE_MAX_AGE))

TrackerIndex(trks, track_id) ==
    IF \E k \in 1..Len(trks) : trks[k].id = track_id
    THEN CHOOSE k \in 1..Len(trks) : trks[k].id = track_id
    ELSE 0

\* the loop of analyze_frame over the detections: update or register the
\* tracker of each detection and store its pose
RECURSIVE RegisterDetections(_, _, _, _, _, _)
RegisterDetections(trks, ph, detections, poses, i, t) ==
    IF i > Len(detections) THEN [trackers |-> trks, pose_history |-> ph]
    ELSE LET det == detections[i]
             center == EngineCenter(det.bbox)
             k == TrackerIndex(trks, det.track_id)
             trks2 == IF k > 0
                      THEN [trks EXCEPT
                               ![k] = tracker_update(@, center, t, det.bbox, poses[i])]
                      ELSE Append(trks, PersonTracker(det.track_id, center, t, det.bbox))
             old == IF det.track_id \in DOMAIN ph THEN ph[det.track_id] ELSE <<>>
             entry == [pose |-> poses[i], bbox |-> det.bbox, timestamp |-> t]
             ph2 == [id \in DOMAIN ph \cup {det.track_id} |->
                        IF id = det.track_id
                        THEN LastN(Append(old, entry), HISTORY_CAP)
                        ELSE ph[id]]
         IN  RegisterDetections(trks2, ph2, detections, poses, i + 1, t)

IsLoiteringMutant(trk) ==
    get_stationary_time(trk) >= ENGINE_MAX_AGE

\* stationary_time >= LOITERING_THRESHOLD_SECS and the tracker is that old
IsLoitering(trk) ==
    /\ get_stationary_time(trk) >= LOITERING_THRESHOLD_SECS
    /\ trk.last_seen - trk.first_seen >= LOITERING_THRESHOLD_SECS

IsRunning(trk) == FracGT(trk.velocity, Whole(RUNNING_VELOCITY_THRESHOLD))

TrackEvents(trks, type) == [k \in 1..Len(trks) |-> Event(type, trks[k].id)]

\* the sum of the distances over the given pairs of centres
RECURSIVE PairDistances(_, _)
PairDistances(centers, pairs) ==
    IF pairs = {} THEN 0
    ELSE LET p == CHOOSE q \in pairs : TRUE
         IN  Hypot(centers[p[1]][1] - centers[p[2]][1],
                   centers[p[1]][2] - centers[p[2]][2])
             + PairDistances(centers, pairs \ {p})

Pairs(n) == {p \in (1..n) \X (1..n) : p[1] < p[2]}

\* avg_distance < CROWD_DISTANCE_THRESHOLD, the total taken over doubled centres
Clustered(total_distance, count) ==
    total_distance < 2 * CROWD_DISTANCE_THRESHOLD * count

\* EventEngine._detect_clustering
detect_clustering(centers) ==
    IF Len(centers) < CROWD_PERSON_THRESHOLD THEN FALSE
    ELSE LET count == Cardinality(Pairs(Len(centers)))
         IN  IF count > 0
             THEN Clustered(PairDistances(centers, Pairs(Len(centers))), count)
             ELSE FALSE

CrowdCooldownPassedMutant(t, last) == t - last > CROWD_ALERT_COOLDOWN

CrowdCooldownPassed(t, last) == t - last >= CROWD_ALERT_COOLDOWN

\* the crowd stage of analyze_frame: the events it adds
CrowdEvents(detections, last, t) ==
    IF Len(detections) >= CROWD_PERSON_THRESHOLD /\ CrowdCooldownPassed(t, last)
    THEN LET centers == [i \in 1..Len(detections) |-> EngineCenter(detections[i].bbox)]
         IN  << [type |-> "CROWD_ALERT", track_id |-> 0,
                 person_count |-> Len(detections),
                 is_clustered |-> IF Len(centers) >= 2
                                  THEN detect_clustering(centers) ELSE FALSE] >>
    ELSE <<>>

IsFallen(bbox) ==
    LET width == bbox[3] - bbox[1]
        height == bbox[4] - bbox[2]
    IN  width > 0 /\ height * FALL_RATIO_DEN < FALL_RATIO_NUM * width

FallEvents(detections) ==
    LET fallen == SelectSeq(detections, LAMBDA det : IsFallen(det.bbox))
    IN  [i \in 1..Len(fallen) |-> Event("FALL_DETECTED", 0)]

\* EventEngine.analyze_frame
analyze_frame(trks, ph, cleanup, crowd, detections, poses, t) ==
    LET clean == t - cleanup > CLEANUP_INTERVAL
        trks1 == IF clean THEN cleanup_old_trackers(trks, t) ELSE trks
        kept == {trks1[k].id : k \in 1..Len(trks1)}
        ph1 == IF clean THEN [id \in DOMAIN ph \cap kept |-> ph[id]] ELSE ph
        reg == RegisterDetections(trks1, ph1, detections, poses, 1, t)
        active_ids == {detections[i].track_id : i \in 1..Len(detections)}
        active_trackers == SelectSeq(reg.trackers, LAMBDA trk : trk.id \in active_ids)
        crowd_events == CrowdEvents(detections, crowd, t)
    IN  [trackers |-> reg.trackers,
         pose_history |-> reg.pose_history,
         last_cleanup |-> IF clean THEN t ELSE cleanup,
         last_crowd_alert_time |-> IF crowd_events # <<>> THEN t ELSE crowd,
         events |->
            TrackEvents(SelectSeq(active_trackers, IsLoitering), "LOITERING")
            \o TrackEvents(SelectSeq(active_trackers, IsRunning), "RUNNING")
            \o crowd_events
            \o FallEvents(detections)
            \o (IF Len(active_trackers) >= 2
                THEN detect_aggression(active_trackers, reg.pose_history, t)
                ELSE <<>>)]

AggressionTypes == {"AGGRESSIVE_BEHAVIOR", "FIGHT_DETECTED"}

\* _generate_behavior_alert: the alert that is stored and broadcast
BehaviorAlert(event, t) ==
    [type |-> event.type, track_id |-> event.track_id, timestamp |-> t,
     person_count |-> event.person_count, is_clustered |-> event.is_clustered]

NoAnalysis == [ran |-> FALSE, time |-> 0, detections |-> <<>>, events |-> <<>>]

\* what an analyze_frame call saw of each active track: whether its latest
\* pose is reliable, whether its wrist speed is at or above
\* ARM_SPEED_THRESHOLD, whether evaluate_aggression was called for it and the
\* hit counter the call left, whether another active track within
\* CLOSE_DISTANCE has an elevated wrist speed, and the aggression event
AggressionSeen(trks, ph, detections, events, step, t) ==
    LET active_ids == {detections[i].track_id : i \in 1..Len(detections)}
        active == SelectSeq(trks, LAMBDA trk : trk.id \in active_ids)
        dicts == [k \in 1..Len(active) |-> to_dict(active[k])]
        emitted(id) == {j \in 1..Len(events) :
                          events[j].type \in AggressionTypes /\ events[j].track_id = id}
    IN  [k \in 1..Len(dicts) |->
            [step |-> step,
             time |-> t,
             track_id |-> dicts[k].id,
             reliable |-> PoseReliable(ph, dicts[k].id),
             fast |-> ~FracLT(TrackSpeed(dicts[k]), Whole(ARM_SPEED_THRESHOLD)),
             evaluated |-> Len(active) >= 2 /\ PoseReliable(ph, dicts[k].id),
             hits |-> IF Len(active) >= 2 /\ PoseReliable(ph, dicts[k].id)
                      THEN HitsLeft(dicts[k]) ELSE 0,
             neighbour_fast |->
                \E j \in 1..Len(dicts) :
                    /\ j # k
                    /\ Hypot(dicts[k].center[1] - dicts[j].center[1],
                             dicts[k].center[2] - dicts[j].center[2])
                         < 2 * CLOSE_DISTANCE
                    /\ FracGT(TrackSpeed(dicts[j]),
                              [num |-> 7 * ARM_SPEED_THRESHOLD, den |-> 10]),
             event |-> IF emitted(dicts[k].id) = {} THEN "none"
                       ELSE events[CHOOSE j \in emitted(dicts[k].id) : TRUE].type]]

\* _analyze_behaviors at time t on the persons of the frame: analyze_frame,
\* then an alert for every event
RunAnalysis(t, persons, poses) ==
    LET detections == [i \in 1..Len(persons) |->
                          [bbox |-> persons[i].bbox, track_id |-> persons[i].id]]
    IN  \E r \in {analyze_frame(engine_trackers, pose_history, last_cleanup,
                                last_crowd_alert_time, detections, poses, t)} :
            /\ engine_time' = t
            /\ engine_trackers' = r.trackers
            /\ pose_history' = r.pose_history
            /\ last_cleanup' = r.last_cleanup
            /\ last_crowd_alert_time' = r.last_crowd_alert_time
            /\ is_aggressive' = is_aggressive \cup
                  {r.events[i].track_id : i \in
                      {j \in 1..Len(r.events) : r.events[j].type \in AggressionTypes}}
            /\ behavior_alerts' = behavior_alerts \o
                  [i \in 1..Len(r.events) |-> BehaviorAlert(r.events[i], t)]
            /\ last_behavior_check' = t
            /\ last_analysis' = [ran |-> TRUE, time |-> t, detections |-> detections,
                                 events |-> r.events]
            /\ aggression_log' = aggression_log \o
                  AggressionSeen(r.trackers, r.pose_history, detections, r.events,
                                 behavior_steps + 1, t)
            /\ behavior_steps' = behavior_steps + 1

\* step 10 of the main loop when the behaviour check is due:
\* _analyze_behaviors on the persons of the frame
AnalyzeBehaviors ==
    /\ behavior_steps < MaxBehaviorSteps
    /\ \E gap \in BehaviorGaps, persons \in PersonLists, pose \in Poses :
        /\ (engine_time + gap) - last_behavior_check >= BEHAVIOR_CHECK_INTERVAL
        /\ RunAnalysis(engine_time + gap, persons, [i \in 1..Len(persons) |-> pose])
    /\ UNCHANGED <<hybridVars, personVars, trackerVars, vehicleVars, runningVars, loopVars, stageVars, broadcastVars, repeatVars, rulesVars, statsVars, gatherVars, cameraVars, embedVars>>

\* step 10 of the main loop less than BEHAVIOR_CHECK_INTERVAL after the
\* previous check: nothing is analysed
BehaviorCheckSkipped ==
    /\ behavior_steps < MaxBehaviorSteps
    /\ \E gap \in BehaviorGaps :
        /\ (engine_time + gap) - last_behavior_check < BEHAVIOR_CHECK_INTERVAL
        /\ engine_time' = engine_time + gap
    /\ last_analysis' = NoAnalysis
    /\ behavior_steps' = behavior_steps + 1
    /\ UNCHANGED <<engine_trackers, pose_history, last_cleanup,
                   last_crowd_alert_time, is_aggressive, behavior_alerts,
                   last_behavior_check, aggression_log>>
    /\ UNCHANGED <<hybridVars, personVars, trackerVars, vehicleVars, runningVars, loopVars, stageVars, broadcastVars, repeatVars, rulesVars, statsVars, gatherVars, cameraVars, embedVars>>

BehaviorNext == AnalyzeBehaviors \/ BehaviorCheckSkipped

\* A long scene for the aggression rules: the same one or two persons stand
\* still 25 px apart in every frame, a frame comes every 0.2 s, and in every
\* frame the poses are reliable with the left wrists either 50 px from where
\* they were in the previous frame (250 px/s) or, in at most MaxStillFrames
\* frames, where they were.
MaxAggressionSteps == 17

MaxStillFrames == 1

AggressionScenes ==
    { <<[id |-> 1, bbox |-> StandingBox(0)]>>,
      <<[id |-> 1, bbox |-> StandingBox(0)], [id |-> 2, bbox |-> StandingBox(1)]>>,
      <<[id |-> 1, bbox |-> StandingBox(0)], [id |-> 2, bbox |-> StandingBox(9)]>> }

SwingPoses == {pose \in Poses : pose.landmarks}

\* the poses stored for track 1, the frames in which its pose is the one of
\* the frame before
StillFrames ==
    IF 1 \in DOMAIN pose_history
    THEN {k \in 2..Len(pose_history[1]) :
            pose_history[1][k].pose = pose_history[1][k - 1].pose}
    ELSE {}

IsStillPose(pose) ==
    /\ 1 \in DOMAIN pose_history
    /\ pose_history[1][Len(pose_history[1])].pose = pose

SameScene(persons) ==
    last_analysis.ran =>
        /\ Len(persons) = Len(last_analysis.detections)
        /\ \A i \in 1..Len(persons) :
              persons[i].bbox = last_analysis.detections[i].bbox

AggressionFrame ==
    /\ behavior_steps < MaxAggressionSteps
    /\ \E persons \in AggressionScenes, pose \in SwingPoses :
        /\ SameScene(persons)
        /\ IsStillPose(pose) => Cardinality(StillFrames) < MaxStillFrames
        /\ (engine_time + BEHAVIOR_CHECK_INTERVAL) - last_behavior_check >= BEHAVIOR_CHECK_INTERVAL
        /\ RunAnalysis(engine_time + BEHAVIOR_CHECK_INTERVAL, persons,
                       [i \in 1..Len(persons) |-> pose])
    /\ UNCHANGED <<hybridVars, personVars, trackerVars, vehicleVars, runningVars, loopVars, stageVars, broadcastVars, repeatVars, rulesVars, statsVars, gatherVars, cameraVars, embedVars>>

AggressionNext == AggressionFrame

\* A long scene for the loitering rule: one person without a pose, seen every
\* 30 s (the longest absence the engine's cleanup lets a tracker survive) or
\* after 60 s (the cleanup drops the tracker and the frame starts a new one),
\* standing where it stood in the frame before or 50 px from there.
MaxLoiterSteps == 12

LoiterGaps == {ENGINE_MAX_AGE, 2 * ENGINE_MAX_AGE}

LoiterScenes ==
    { <<[id |-> 1, bbox |-> b]>> : b \in {StandingBox(0), StandingBox(2)} }

NoPose == CHOOSE pose \in Poses : ~pose.landmarks

LoiterFrame ==
    /\ behavior_steps < MaxLoiterSteps
    /\ \E gap \in LoiterGaps, persons \in LoiterScenes :
        /\ (engine_time + gap) - last_behavior_check >= BEHAVIOR_CHECK_INTERVAL
        /\ RunAnalysis(engine_time + gap, persons, <<NoPose>>)
    /\ UNCHANGED <<hybridVars, personVars, trackerVars, vehicleVars, runningVars, loopVars, stageVars, broadcastVars, repeatVars, rulesVars, statsVars, gatherVars, cameraVars, embedVars>>

LoiterNext == LoiterFrame

-----------------------------------------------------------------------------
(* Vehicle stage: _process_vehicles, calculate_speed and vehicle_rules.    *)
(* Confidences are in thousandths; centres are doubled as above and the    *)
(* boxes of one vehicle keep its centre on a line of slope -4/3.           *)

ALERT_COOLDOWN_VEHICLE == 600

\* weaker detections are ignored by the rules
VEHICLE_MIN_CONF == 500

OVERSPEED_THRESHOLD == 120

\* positions calculate_speed keeps per vehicle
SPEED_HISTORY == 5

\* values an entry of the history is unpacked into by estimate_speed
HISTORY_ENTRY_FIELDS == 5

MaxVehicleFrames == 2

VehicleGaps == {1, 600}

\* frame.shape: height, width
FrameShape == <<480, 640>>

RESTRICTED_ZONES == {"corridor", "ward"}

get_vehicle_type(class_id) ==
    CASE class_id = 1 -> "bicycle"
      [] class_id = 2 -> "car"
      [] class_id = 3 -> "motorcycle"
      [] class_id = 5 -> "bus"
      [] class_id = 7 -> "truck"
      [] class_id = 9 -> "ambulance"
      [] OTHER -> "unknown"

\* cy < h * 0.5, then cx < w * 0.5
infer_zone_from_position(bbox, frame_shape) ==
    IF bbox[2] + bbox[4] < frame_shape[1] THEN "corridor"
    ELSE IF bbox[1] + bbox[3] < frame_shape[2] THEN "parking"
    ELSE "emergency"

\* the vehicles of a frame: a truck (track 1) in the corridor, strong or weak,
\* 50 px further on or in the parking zone, and a car (track 2) in the corridor
VehicleLists ==
    { SelectSeq(<<v1, v2>>, LAMBDA v : v.bbox # Absent) :
        v1 \in { [id |-> 1, class |-> 7, conf |-> 0, bbox |-> Absent],
                 [id |-> 1, class |-> 7, conf |-> 900, bbox |-> <<300, 100, 400, 200>>],
                 [id |-> 1, class |-> 7, conf |-> 400, bbox |-> <<300, 100, 400, 200>>],
                 [id |-> 1, class |-> 7, conf |-> 900, bbox |-> <<270, 140, 370, 240>>],
                 [id |-> 1, class |-> 7, conf |-> 900, bbox |-> <<210, 220, 310, 320>>] },
        v2 \in { [id |-> 2, class |-> 2, conf |-> 0, bbox |-> Absent],
                 [id |-> 2, class |-> 2, conf |-> 900, bbox |-> <<100, 50, 200, 150>>] } }

HistoryOf(track_history, track_id) ==
    IF track_id \in DOMAIN track_history THEN track_history[track_id] ELSE <<>>

\* the sum of the distances between consecutive entries <<<<cx, cy>>, t>>
RECURSIVE TravelledDistance(_)
TravelledDistance(positions) ==
    IF Len(positions) < 2 THEN 0
    ELSE Hypot(positions[2][1][1] - positions[1][1][1],
               positions[2][1][2] - positions[1][1][2])
         + TravelledDistance(Tail(positions))

\* calculate_speed: the history it leaves and the speed it returns
calculate_speed(track_id, bbox, timestamp, track_history) ==
    LET positions == LastN(Append(HistoryOf(track_history, track_id),
                                  <<EngineCenter(bbox), timestamp>>),
                           SPEED_HISTORY)
        total_time == positions[Len(positions)][2] - positions[1][2]
    IN  [track_history |->
            [id \in DOMAIN track_history \cup {track_id} |->
                IF id = track_id THEN positions ELSE track_history[id]],
         speed |-> IF Len(positions) >= 2 /\ total_time > 0
                   THEN [num |-> TravelledDistance(positions) * 10,
                         den |-> 2 * total_time]
                   ELSE ZeroSpeed]

\* unpacking an entry of the history into x1, y1, x2, y2, t raises ValueError
\* unless the entry holds five values
Unpacks(entry) == Len(entry) = HISTORY_ENTRY_FIELDS

\* vehicle_rules.estimate_speed
estimate_speed(history) ==
    IF Len(history) < 2 THEN [raised |-> FALSE, speed |-> ZeroSpeed]
    ELSE LET a == history[Len(history) - 1]
             b == history[Len(history)]
         IN  IF ~(Unpacks(a) /\ Unpacks(b)) THEN [raised |-> TRUE, speed |-> ZeroSpeed]
             ELSE [raised |-> FALSE,
                   speed |-> [num |-> Hypot((b[1] + b[3]) - (a[1] + a[3]),
                                            (b[2] + b[4]) - (a[2] + a[4])) * 100,
                              den |-> 2 * Max2((b[5] - a[5]) * 10, 1)]]

VehicleEvent(type, severity, vehicle_type, zone, track_id) ==
    [type |-> type, severity |-> severity, vehicle_type |-> vehicle_type,
     zone |-> zone, track_id |-> track_id]

\* the overspeed event carries the speed in place of the vehicle type
OverspeedEvent(speed, zone, track_id) ==
    [type |-> "OVER_SPEED_VEHICLE", severity |-> "critical", speed |-> speed,
     zone |-> zone, track_id |-> track_id]

\* vehicle_rules.evaluate_vehicle_rules: the events, or the exception of
\* estimate_speed
evaluate_vehicle_rules(vehicle, frame_shape) ==
    LET vehicle_type == get_vehicle_type(vehicle.class)
        zone == infer_zone_from_position(vehicle.bbox, frame_shape)
        est == estimate_speed(vehicle.history)
        violations ==
            (IF zone \in RESTRICTED_ZONES
                /\ ~(vehicle_type = "ambulance" /\ zone = "emergency")
             THEN <<VehicleEvent("VEHICLE_RESTRICTED_AREA", "warning",
                                 vehicle_type, zone, vehicle.id)>>
             ELSE <<>>)
            \o (IF vehicle_type \in {"bus", "truck"} /\ zone = "corridor"
                THEN <<VehicleEvent("HEAVY_VEHICLE_CORRIDOR", "critical",
                                    vehicle_type, zone, vehicle.id)>>
                ELSE <<>>)
            \o (IF vehicle_type = "car" /\ zone = "corridor"
                THEN <<VehicleEvent("UNAUTHORIZED_PARKING", "warning",
                                    vehicle_type, zone, vehicle.id)>>
                ELSE <<>>)
            \o (IF FracGT(est.speed, Whole(OVERSPEED_THRESHOLD)) /\ zone = "corridor"
                THEN <<OverspeedEvent(est.speed, zone, vehicle.id)>>
                ELSE <<>>)
    IN  IF vehicle.conf < VEHICLE_MIN_CONF \/ vehicle.bbox = <<>>
        THEN [raised |-> FALSE, events |-> <<>>]
        ELSE IF est.raised THEN [raised |-> TRUE, events |-> <<>>]
        ELSE [raised |-> FALSE,
              events |-> IF violations = <<>>
                         THEN <<VehicleEvent("VEHICLE_DETECTED", "info",
                                             vehicle_type, zone, vehicle.id)>>
                         ELSE violations]

\* the vehicle dicts evaluate_vehicle_rules is called with: every vehicle
\* class, confidences from the 0.35 of _separate_detections upwards, a box in
\* each zone, and a history that is empty, holds two boxes 60 s or 0.1 s
\* apart (the centre moved 50 px), or holds the two <<centre, time>> pairs
\* calculate_speed keeps
RuleConfs == {350, 499, 500, 900}

RuleBoxes == {<<300, 100, 400, 200>>, <<100, 300, 200, 400>>, <<400, 300, 500, 400>>}

RuleHistories(bbox) ==
    LET before == <<bbox[1] - 30, bbox[2] + 40, bbox[3] - 30, bbox[4] + 40>>
    IN  { <<>>,
          <<before \o <<T0>>, bbox \o <<T0 + 600>>>>,
          <<before \o <<T0>>, bbox \o <<T0 + 1>>>>,
          <<<<EngineCenter(before), T0>>, <<EngineCenter(bbox), T0 + 1>>>> }

\* a call of vehicle_rules.evaluate_vehicle_rules
EvaluateRules ==
    /\ \E class_id \in {1, 2, 3, 5, 7, 9}, conf \in RuleConfs, bbox \in RuleBoxes :
         \E history \in RuleHistories(bbox) :
           LET vehicle == [id |-> 1, class |-> class_id, conf |-> conf, bbox |-> bbox,
                           history |-> history]
           IN  \E r \in {evaluate_vehicle_rules(vehicle, FrameShape)} :
                 rule_call' = [called |-> TRUE, vehicle |-> vehicle,
                               raised |-> r.raised, events |-> r.events]
    /\ UNCHANGED <<hybridVars, personVars, trackerVars, behaviorVars, vehicleVars, runningVars, loopVars, stageVars, broadcastVars, repeatVars, statsVars, gatherVars, cameraVars, embedVars>>

LastAlertMutant(cooldowns, vehicle_id, event_type) ==
    IF \E key \in DOMAIN cooldowns : key[1] = vehicle_id
    THEN cooldowns[CHOOSE key \in DOMAIN cooldowns : key[1] = vehicle_id]
    ELSE 0

\* alert_cooldowns["vehicle"][vehicle_id].get(event_type, 0)
LastAlert(cooldowns, vehicle_id, event_type) ==
    IF <<vehicle_id, event_type>> \in DOMAIN cooldowns
    THEN cooldowns[<<vehicle_id, event_type>>]
    ELSE 0

VehicleCooldownPassed(t, last_alert) == t - last_alert >= ALERT_COOLDOWN_VEHICLE

\* _generate_vehicle_alert: the alert that is stored and broadcast
VehicleAlert(vehicle, event, t) ==
    [type |-> event.type, vehicle_id |-> vehicle.id, timestamp |-> t,
     vehicle_type |-> get_vehicle_type(vehicle.class),
     vehicle_speed |-> vehicle.speed]

\* the loop of _process_vehicles over the events of one vehicle
RECURSIVE EmitVehicleEvents(_, _, _, _, _)
EmitVehicleEvents(st, vehicle, events, i, t) ==
    IF i > Len(events) THEN st
    ELSE LET event_type == events[i].type
             key == <<vehicle.id, event_type>>
             emit == VehicleCooldownPassed(t, LastAlert(st.cooldowns, vehicle.id, event_type))
             st2 == [alerts |-> IF emit
                                THEN Append(st.alerts, VehicleAlert(vehicle, events[i], t))
                                ELSE st.alerts,
                     cooldowns |-> IF emit
                                   THEN [k \in DOMAIN st.cooldowns \cup {key} |->
                                            IF k = key THEN t ELSE st.cooldowns[k]]
                                   ELSE st.cooldowns,
                     positions |-> st.positions,
                     produced |-> Append(st.produced,
                                         [vehicle_id |-> vehicle.id, type |-> event_type,
                                          emitted |-> emit]),
                     raised |-> st.raised]
         IN  EmitVehicleEvents(st2, vehicle, events, i + 1, t)

\* the loop of _process_vehicles over the vehicles: an exception of the rules
\* ends it, the vehicles after the one that raised are not looked at
RECURSIVE ProcessVehicleList(_, _, _, _)
ProcessVehicleList(st, vehicles, i, t) ==
    IF i > Len(vehicles) \/ st.raised THEN st
    ELSE LET vehicle == vehicles[i]
             cs == calculate_speed(vehicle.id, vehicle.bbox, t, st.positions)
             payload == [id |-> vehicle.id, class |-> vehicle.class,
                         conf |-> vehicle.conf, bbox |-> vehicle.bbox,
                         history |-> HistoryOf(cs.track_history, vehicle.id),
                         speed |-> cs.speed]
             rules == evaluate_vehicle_rules(payload, FrameShape)
             st1 == [st EXCEPT !.positions = cs.track_history]
             with_speed == [id |-> vehicle.id, class |-> vehicle.class,
                            conf |-> vehicle.conf, bbox |-> vehicle.bbox,
                            speed |-> cs.speed]
         IN  IF rules.raised THEN [st1 EXCEPT !.raised = TRUE]
             ELSE ProcessVehicleList(
                      EmitVehicleEvents(st1, with_speed, rules.events, 1, t),
                      vehicles, i + 1, t)

NoVehicleRun == [ran |-> FALSE, time |-> 0, raised |-> FALSE, produced |-> <<>>,
                 previous_alerts |-> 0]

\* step 9 of the main loop: _process_vehicles on the vehicles of the frame
ProcessVehicles ==
    /\ vehicle_frames < MaxVehicleFrames
    /\ \E gap \in VehicleGaps, vehicles \in VehicleLists :
        LET t == vehicle_time + gap
        IN  \E st \in {ProcessVehicleList(
                          [alerts |-> vehicle_alerts, cooldowns |-> alert_cooldowns,
                           positions |-> vehicle_positions, produced |-> <<>>,
                           raised |-> FALSE],
                          vehicles, 1, t)} :
            /\ vehicle_time' = t
            /\ vehicle_positions' = st.positions
            /\ alert_cooldowns' = st.cooldowns
            /\ vehicle_alerts' = st.alerts
            /\ last_vehicle_run' = [ran |-> TRUE, time |-> t, raised |-> st.raised,
                                    produced |-> st.produced,
                                    previous_alerts |-> Len(vehicle_alerts)]
            /\ vehicle_frames' = vehicle_frames + 1
    /\ UNCHANGED <<hybridVars, personVars, trackerVars, behaviorVars, runningVars, loopVars, stageVars, broadcastVars, repeatVars, rulesVars, statsVars, gatherVars, cameraVars, embedVars>>

VehicleNext == ProcessVehicles

-----------------------------------------------------------------------------
(* Behaviour task of _process_persons: _check_person_behavior              *)

\* px/s
PERSON_RUNNING_SPEED == 50

\* bounds
MaxRunningFrames == 3

RunningGaps == {1, 5}

RunningBoxes == {StandingBox(0), StandingBox(2)}

\* get_zone_for_position on the doubled centre <<2x, 2y>>
get_zone_for_position(center, frame_shape) ==
    IF 10 * center[1] < 6 * frame_shape[2] THEN "left_corridor"
    ELSE IF 10 * center[1] > 14 * frame_shape[2] THEN "right_corridor"
    ELSE IF 10 * center[2] < 6 * frame_shape[1] THEN "emergency_entrance"
    ELSE "main_corridor"

PersonAlert(type, p, t) == [type |-> type, person_id |-> p, timestamp |-> t]

\* one pass of the main loop up to the gather of _process_persons for a
\* frame that shows person 1: the state merge, then one authorization task
\* if the person needs one and one behaviour task
RunningFrame ==
    \E gap \in RunningGaps, bbox \in RunningBoxes :
        /\ pending = {}
        /\ behavior_tasks = <<>>
        /\ frames < MaxRunningFrames
        /\ LET current_time == now + gap
               visible == <<1>>
               ids == AssignDisplayIds(
                          SelectSeq(visible, LAMBDA t : t \notin DOMAIN person_states),
                          person_id_map, next_person_id)
               states == UpdatedPersonStates(person_states, visible, ids.map,
                                             current_time)
           IN  /\ now' = current_time
               /\ person_id_map' = ids.map
               /\ next_person_id' = ids.next
               /\ person_states' = states
               /\ pending' = {t \in Range(visible) :
                                 NeedsAuth(states[t], current_time)}
               /\ behavior_tasks' = [t \in Range(visible) |-> bbox]
        /\ frames' = frames + 1
        /\ last_check' = NoCheck
        /\ UNCHANGED <<stranger_embeddings, person_alerts, person_positions>>
        /\ UNCHANGED <<hybridVars, trackerVars, behaviorVars, vehicleVars, loopVars, stageVars, broadcastVars, repeatVars, rulesVars, statsVars, gatherVars, cameraVars, embedVars>>

\* if speed > 50.0
PersonSpeedExceeds(speed) == FracGT(speed, Whole(PERSON_RUNNING_SPEED))

\* _check_person_behavior of person p; the zone of a position is never
\* "restricted_area", so the person's verdict is not read
CheckPersonBehavior(p) ==
    /\ p \in DOMAIN behavior_tasks
    /\ \E r \in {calculate_speed(p, behavior_tasks[p], now, person_positions)} :
        LET person == person_states[p]
            is_running == /\ PersonSpeedExceeds(r.speed)
                          /\ now - person.last_behavior_alert > ALERT_COOLDOWN_BEHAVIOR
            zone == get_zone_for_position(EngineCenter(behavior_tasks[p]), FrameShape)
            entered == /\ zone = "restricted_area"
                       /\ person.authorized = "unauthorized"
                       /\ now - person.last_zone_alert > ALERT_COOLDOWN_BEHAVIOR
        IN  /\ person_positions' = r.track_history
            /\ person_states' = [person_states EXCEPT ![p] =
                   [person EXCEPT
                       !.last_behavior_alert = IF is_running THEN now ELSE @,
                       !.last_zone_alert = IF entered THEN now ELSE @]]
            /\ person_alerts' = person_alerts
                   \o (IF is_running THEN <<PersonAlert("RUNNING_DETECTED", p, now)>>
                       ELSE <<>>)
                   \o (IF entered THEN <<PersonAlert("RESTRICTED_AREA_ENTRY", p, now)>>
                       ELSE <<>>)
    /\ behavior_tasks' = [t \in DOMAIN behavior_tasks \ {p} |-> behavior_tasks[t]]
    /\ UNCHANGED <<now, stranger_embeddings, person_id_map, next_person_id,
                   pending, last_check, frames>>
    /\ UNCHANGED <<hybridVars, trackerVars, behaviorVars, vehicleVars, loopVars, stageVars, broadcastVars, repeatVars, rulesVars, statsVars, gatherVars, cameraVars, embedVars>>

\* A long watch for the stranger cache: the frames show person 1, a few
\* seconds or the whole retention time of the cache after the frame before
MaxStrangerFrames == 3

StrangerGaps == {60, STRANGER_RETENTION}

\* one pass of the main loop up to the gather of _process_persons
StrangerFrame ==
    \E gap \in StrangerGaps :
        /\ pending = {}
        /\ frames < MaxStrangerFrames
        /\ LET current_time == now + gap
               visible == <<1>>
               ids == AssignDisplayIds(
                          SelectSeq(visible, LAMBDA t : t \notin DOMAIN person_states),
                          person_id_map, next_person_id)
               states == UpdatedPersonStates(person_states, visible, ids.map,
                                             current_time)
           IN  /\ now' = current_time
               /\ person_id_map' = ids.map
               /\ next_person_id' = ids.next
               /\ person_states' = states
               /\ pending' = {t \in Range(visible) :
                                 NeedsAuth(states[t], current_time)}
        /\ frames' = frames + 1
        /\ last_check' = NoCheck
        /\ UNCHANGED <<stranger_embeddings, person_alerts>>
        /\ UNCHANGED <<hybridVars, trackerVars, behaviorVars, vehicleVars, runningVars, loopVars, stageVars, broadcastVars, repeatVars, rulesVars, statsVars, gatherVars, cameraVars, embedVars>>

StrangerNext ==
    \/ StrangerFrame
    \/ \E p \in TrackIds : CheckAuthorizationSkipped(p)
    \/ \E p \in TrackIds : CheckAuthorization(p)

\* The life of a person state next to its track: a frame shows one person
\* at the same place or nobody, 1 s, 6 s (more than the 5 s a state outlives
\* its person) or 30.1 s (more than the tracker's max_age) after the frame
\* before.
MaxLifecycleFrames == 3

LifecycleGaps == {10, PERSON_GRACE + 10, MAX_AGE + 1}

LifecycleDetections == {<<>>, << <<0, 0, 40, 120>> >>}

\* one pass of the main loop from the tracking step to the gather of
\* _process_persons
TrackedFrame ==
    \E gap \in LifecycleGaps, dets \in LifecycleDetections :
        /\ pending = {}
        /\ frames < MaxLifecycleFrames
        /\ \E r \in {update(tracks, next_uuid, dets, now + gap)} :
            /\ r.next <= Cardinality(TrackIds)
            /\ tracks' = r.tracks
            /\ next_uuid' = r.next
            /\ tracked' = r.out
            /\ assigned' = r.assigned
            /\ LET current_time == now + gap
                   visible == [i \in 1..Len(r.out) |-> r.out[i].track_id]
                   ids == AssignDisplayIds(
                              SelectSeq(visible, LAMBDA t : t \notin DOMAIN person_states),
                              person_id_map, next_person_id)
                   states == UpdatedPersonStates(person_states, visible, ids.map,
                                                 current_time)
               IN  /\ now' = current_time
                   /\ frame_time' = current_time
                   /\ person_id_map' = ids.map
                   /\ next_person_id' = ids.next
                   /\ person_states' = states
                   /\ pending' = {t \in Range(visible) :
                                     NeedsAuth(states[t], current_time)}
        /\ frames' = frames + 1
        /\ calls' = calls + 1
        /\ last_check' = NoCheck
        /\ UNCHANGED <<stranger_embeddings, person_alerts>>
        /\ UNCHANGED <<hybridVars, behaviorVars, vehicleVars, runningVars, loopVars, stageVars, broadcastVars, repeatVars, rulesVars, statsVars, gatherVars, cameraVars, embedVars>>

LifecycleNext ==
    \/ TrackedFrame
    \/ \E p \in TrackIds : CheckAuthorizationSkipped(p)
    \/ \E p \in TrackIds : CheckAuthorization(p)

-----------------------------------------------------------------------------
(* ProcessingService.start, _initialize_and_run, stop and the tasks that   *)
(* run _main_loop. A task is [pc, iterations]: pc is "init" from           *)
(* create_task until the models are loaded, "head" at the while test of    *)
(* _main_loop, "stage" while an iteration is suspended in one of its       *)
(* awaits, "done" after the coroutine returned.                            *)

\* bounds
MaxLoopTasks == 3

MaxIterations == 2

LoopTask(pc, iterations) == [pc |-> pc, iterations |-> iterations]

\* start(): returns at once while running is set, otherwise sets it and
\* creates a task for _initialize_and_run
Start ==
    /\ Len(loop_tasks) < MaxLoopTasks
    /\ IF running
       THEN UNCHANGED <<running, loop_tasks>>
       ELSE /\ running' = TRUE
            /\ loop_tasks' = Append(loop_tasks, LoopTask("init", 0))
    /\ last_call' = "start"
    /\ UNCHANGED camera_running
    /\ UNCHANGED <<hybridVars, personVars, trackerVars, behaviorVars, vehicleVars, runningVars, stageVars, broadcastVars, repeatVars, rulesVars, statsVars, gatherVars, cameraVars, embedVars>>

\* stop(): clears running and stops the camera; no task is cancelled or
\* awaited
Stop ==
    /\ running' = FALSE
    /\ camera_running' = FALSE
    /\ last_call' = "stop"
    /\ UNCHANGED loop_tasks
    /\ UNCHANGED <<hybridVars, personVars, trackerVars, behaviorVars, vehicleVars, runningVars, stageVars, broadcastVars, repeatVars, rulesVars, statsVars, gatherVars, cameraVars, embedVars>>

\* _initialize_and_run of task k: the models are loaded, the camera is
\* started and _main_loop is entered
InitializeAndRun(k) ==
    /\ loop_tasks[k].pc = "init"
    /\ camera_running' = TRUE
    /\ loop_tasks' = [loop_tasks EXCEPT ![k].pc = "head"]
    /\ UNCHANGED <<running, last_call>>
    /\ UNCHANGED <<hybridVars, personVars, trackerVars, behaviorVars, vehicleVars, runningVars, stageVars, broadcastVars, repeatVars, rulesVars, statsVars, gatherVars, cameraVars, embedVars>>

\* _initialize_and_run of task k: loading a model raises
InitializeFails(k) ==
    /\ loop_tasks[k].pc = "init"
    /\ running' = FALSE
    /\ loop_tasks' = [loop_tasks EXCEPT ![k].pc = "done"]
    /\ UNCHANGED <<camera_running, last_call>>
    /\ UNCHANGED <<hybridVars, personVars, trackerVars, behaviorVars, vehicleVars, runningVars, stageVars, broadcastVars, repeatVars, rulesVars, statsVars, gatherVars, cameraVars, embedVars>>

\* while self.running: task k begins an iteration and is suspended in its
\* first await, or leaves the loop
LoopHead(k) ==
    /\ loop_tasks[k].pc = "head"
    /\ running => loop_tasks[k].iterations < MaxIterations
    /\ loop_tasks' = [loop_tasks EXCEPT ![k] =
           IF running THEN LoopTask("stage", @.iterations + 1)
           ELSE LoopTask("done", @.iterations)]
    /\ UNCHANGED <<running, camera_running, last_call>>
    /\ UNCHANGED <<hybridVars, personVars, trackerVars, behaviorVars, vehicleVars, runningVars, stageVars, broadcastVars, repeatVars, rulesVars, statsVars, gatherVars, cameraVars, embedVars>>

\* the iteration of task k runs through its stages to the sleep that ends it
IterationDone(k) ==
    /\ loop_tasks[k].pc = "stage"
    /\ loop_tasks' = [loop_tasks EXCEPT ![k].pc = "head"]
    /\ UNCHANGED <<running, camera_running, last_call>>
    /\ UNCHANGED <<hybridVars, personVars, trackerVars, behaviorVars, vehicleVars, runningVars, stageVars, broadcastVars, repeatVars, rulesVars, statsVars, gatherVars, cameraVars, embedVars>>

LoopNext ==
    \/ Start
    \/ Stop
    \/ \E k \in 1..Len(loop_tasks) : InitializeAndRun(k)
    \/ \E k \in 1..Len(loop_tasks) : InitializeFails(k)
    \/ \E k \in 1..Len(loop_tasks) : LoopHead(k)
    \/ \E k \in 1..Len(loop_tasks) : IterationDone(k)

\* An iteration of _main_loop stage by stage, for the task start() created
\* first. iteration.stage is the stage that runs next, "sleep" in the sleep
\* that ends the iteration, "recover" in the sleep of the except clause;
\* ran holds the stages that completed, swallowed those whose exception was
\* caught inside the stage, raised the stage whose exception reached the
\* except clause of the loop.
MaxStageFrames == 2

\* steps 2, 3, 4-7, 8, 9, 10 and 11-12 of the loop
LoopStages ==
    <<"preprocess", "detect", "track", "persons", "vehicles", "behavior", "annotate">>

NoIteration ==
    [stage |-> "none", due |-> FALSE, ran |-> {}, swallowed |-> {}, raised |-> "none"]

\* the stage after stage s; step 10 runs when the behaviour check is due
NextStage(s, due) ==
    LET i == CHOOSE j \in 1..Len(LoopStages) : LoopStages[j] = s
    IN  IF i = Len(LoopStages) THEN "sleep"
        ELSE IF LoopStages[i + 1] = "behavior" /\ ~due THEN LoopStages[i + 2]
        ELSE LoopStages[i + 1]

\* _analyze_behaviors catches every Exception itself
CaughtInStage(s) == s = "behavior"

InsideTryMutant(s) == s # "annotate"

\* every step of an iteration is inside the try block of the loop
InsideTry(s) == s \in Range(LoopStages)

\* while self.running: the task leaves the loop, or gets a frame and goes
\* to step 2, or gets None and sleeps
FrameBegins ==
    /\ Len(loop_tasks) >= 1
    /\ loop_tasks[1].pc = "head"
    /\ running => Len(finished) < MaxStageFrames
    /\ IF running
       THEN /\ loop_tasks' = [loop_tasks EXCEPT ![1] = LoopTask("stage", @.iterations + 1)]
            /\ \E frame \in BOOLEAN, due \in BOOLEAN :
                 iteration' = [NoIteration EXCEPT
                                  !.stage = IF frame THEN LoopStages[1] ELSE "sleep",
                                  !.due = frame /\ due]
       ELSE /\ loop_tasks' = [loop_tasks EXCEPT ![1].pc = "done"]
            /\ UNCHANGED iteration
    /\ UNCHANGED <<running, camera_running, last_call, finished>>
    /\ UNCHANGED <<hybridVars, personVars, trackerVars, behaviorVars, vehicleVars, runningVars, broadcastVars, repeatVars, rulesVars, statsVars, gatherVars, cameraVars, embedVars>>

\* the next stage of the iteration completes or raises an Exception
StageRuns ==
    /\ Len(loop_tasks) >= 1
    /\ loop_tasks[1].pc = "stage"
    /\ iteration.stage \in Range(LoopStages)
    /\ \E raises \in BOOLEAN :
        LET s == iteration.stage
        IN  IF ~raises
            THEN /\ iteration' = [iteration EXCEPT !.ran = @ \cup {s},
                                                   !.stage = NextStage(s, iteration.due)]
                 /\ UNCHANGED <<loop_tasks, running, finished>>
            ELSE IF CaughtInStage(s)
            THEN /\ iteration' = [iteration EXCEPT !.swallowed = @ \cup {s},
                                                   !.stage = NextStage(s, iteration.due)]
                 /\ UNCHANGED <<loop_tasks, running, finished>>
            ELSE IF InsideTry(s)
            THEN /\ iteration' = [iteration EXCEPT !.raised = s, !.stage = "recover"]
                 /\ UNCHANGED <<loop_tasks, running, finished>>
            ELSE \* the exception leaves _main_loop for _initialize_and_run
                 /\ loop_tasks' = [loop_tasks EXCEPT ![1].pc = "done"]
                 /\ running' = FALSE
                 /\ finished' = Append(finished, [iteration EXCEPT !.raised = s])
                 /\ iteration' = NoIteration
    /\ UNCHANGED <<camera_running, last_call>>
    /\ UNCHANGED <<hybridVars, personVars, trackerVars, behaviorVars, vehicleVars, runningVars, broadcastVars, repeatVars, rulesVars, statsVars, gatherVars, cameraVars, embedVars>>

\* the sleep that ends the iteration, or the one of the except clause, is
\* over: back to the while test
FrameEnds ==
    /\ Len(loop_tasks) >= 1
    /\ loop_tasks[1].pc = "stage"
    /\ iteration.stage \in {"sleep", "recover"}
    /\ loop_tasks' = [loop_tasks EXCEPT ![1].pc = "head"]
    /\ finished' = Append(finished, iteration)
    /\ iteration' = NoIteration
    /\ UNCHANGED <<running, camera_running, last_call>>
    /\ UNCHANGED <<hybridVars, personVars, trackerVars, behaviorVars, vehicleVars, runningVars, broadcastVars, repeatVars, rulesVars, statsVars, gatherVars, cameraVars, embedVars>>

StagesNext ==
    \/ Len(loop_tasks) = 0 /\ Start
    \/ Stop
    \/ \E k \in 1..Len(loop_tasks) : InitializeAndRun(k)
    \/ \E k \in 1..Len(loop_tasks) : InitializeFails(k)
    \/ FrameBegins
    \/ StageRuns
    \/ FrameEnds

-----------------------------------------------------------------------------
(* Broadcaster: connect, disconnect, broadcast_json, _safe_send. The       *)
(* coroutines run on one event loop; a coroutine is suspended only in an   *)
(* await, and acquiring a free asyncio.Lock does not suspend.              *)

\* bounds
MaxSockets == 3

MaxBroadcasts == 2

Sockets == 1..MaxSockets

NoBroadcast ==
    [pc |-> "idle", clients |-> {}, pending |-> {}, delivered |-> {},
     removing |-> {}, failed |-> {}, left |-> {}]

\* connect(websocket) of a websocket that was not connected before
Connect(ws) ==
    /\ ws \notin bc_clients \cup bc_gone
    /\ bc_lock = "free"
    /\ bc_clients' = bc_clients \cup {ws}
    /\ UNCHANGED <<bc_lock, bc_gone, bc_call, bc_calls>>
    /\ UNCHANGED <<hybridVars, personVars, trackerVars, behaviorVars, vehicleVars, runningVars, loopVars, stageVars, repeatVars, rulesVars, statsVars, gatherVars, cameraVars, embedVars>>

AfterDisconnectMutant(clients, ws) == clients

\* if websocket in self._clients: self._clients.remove(websocket)
AfterDisconnect(clients, ws) == clients \ {ws}

\* disconnect(websocket) called by the route of a client that went away
Disconnect(ws) ==
    /\ ws \in bc_clients
    /\ bc_lock = "free"
    /\ bc_clients' = AfterDisconnect(bc_clients, ws)
    /\ bc_gone' = bc_gone \cup {ws}
    /\ bc_call' = IF bc_call.pc \in {"sending", "returned"}
                  THEN [bc_call EXCEPT !.left = @ \cup {ws}] ELSE bc_call
    /\ UNCHANGED <<bc_lock, bc_calls>>
    /\ UNCHANGED <<hybridVars, personVars, trackerVars, behaviorVars, vehicleVars, runningVars, loopVars, stageVars, repeatVars, rulesVars, statsVars, gatherVars, cameraVars, embedVars>>

\* broadcast_json up to the gather: the clients are copied under the lock,
\* the lock is released, and one _safe_send per client is started
BroadcastBegins ==
    /\ bc_call.pc \in {"idle", "returned"}
    /\ bc_calls < MaxBroadcasts
    /\ bc_lock = "free"
    /\ bc_call' = [NoBroadcast EXCEPT
                      !.pc = IF bc_clients = {} THEN "returned" ELSE "sending",
                      !.clients = bc_clients,
                      !.pending = bc_clients]
    /\ bc_calls' = bc_calls + 1
    /\ UNCHANGED <<bc_clients, bc_lock, bc_gone>>
    /\ UNCHANGED <<hybridVars, personVars, trackerVars, behaviorVars, vehicleVars, runningVars, loopVars, stageVars, repeatVars, rulesVars, statsVars, gatherVars, cameraVars, embedVars>>

\* _safe_send: ws.send_json returns or raises
SendDone(ws) ==
    /\ bc_call.pc = "sending"
    /\ ws \in bc_call.pending
    /\ \E raises \in BOOLEAN :
         bc_call' = IF raises
                    THEN [bc_call EXCEPT !.pending = @ \ {ws}, !.removing = @ \cup {ws}]
                    ELSE [bc_call EXCEPT !.pending = @ \ {ws}, !.delivered = @ \cup {ws}]
    /\ UNCHANGED <<bc_clients, bc_lock, bc_gone, bc_calls>>
    /\ UNCHANGED <<hybridVars, personVars, trackerVars, behaviorVars, vehicleVars, runningVars, loopVars, stageVars, repeatVars, rulesVars, statsVars, gatherVars, cameraVars, embedVars>>

\* _safe_send after the send raised: await self.disconnect(ws)
RemoveFailed(ws) ==
    /\ bc_call.pc = "sending"
    /\ ws \in bc_call.removing
    /\ bc_lock = "free"
    /\ bc_clients' = AfterDisconnect(bc_clients, ws)
    /\ bc_gone' = bc_gone \cup {ws}
    /\ bc_call' = [bc_call EXCEPT !.removing = @ \ {ws}, !.failed = @ \cup {ws}]
    /\ UNCHANGED <<bc_lock, bc_calls>>
    /\ UNCHANGED <<hybridVars, personVars, trackerVars, behaviorVars, vehicleVars, runningVars, loopVars, stageVars, repeatVars, rulesVars, statsVars, gatherVars, cameraVars, embedVars>>

\* the gather is complete: broadcast_json returns
BroadcastReturns ==
    /\ bc_call.pc = "sending"
    /\ bc_call.pending = {}
    /\ bc_call.removing = {}
    /\ bc_call' = [bc_call EXCEPT !.pc = "returned"]
    /\ UNCHANGED <<bc_clients, bc_lock, bc_gone, bc_calls>>
    /\ UNCHANGED <<hybridVars, personVars, trackerVars, behaviorVars, vehicleVars, runningVars, loopVars, stageVars, repeatVars, rulesVars, statsVars, gatherVars, cameraVars, embedVars>>

BroadcastStep ==
    \/ \E ws \in Sockets : SendDone(ws)
    \/ \E ws \in Sockets : RemoveFailed(ws)
    \/ BroadcastReturns

BroadcastNext ==
    \/ \E ws \in Sockets : Connect(ws)
    \/ \E ws \in Sockets : Disconnect(ws)
    \/ BroadcastBegins
    \/ \E ws \in Sockets : SendDone(ws)
    \/ \E ws \in Sockets : RemoveFailed(ws)
    \/ BroadcastReturns

-----------------------------------------------------------------------------
(* StatsService: log_event runs in worker threads (asyncio.to_thread); the *)
(* events are of the current day. An in-place addition to an attribute is  *)
(* a load followed by a store, and another thread may run in between.      *)

\* bounds
MaxLogCalls == 2

LoggedTypes == {"STAFF_AUTHORIZED", "UNAUTHORIZED_PERSON", "RUNNING_DETECTED",
                "VEHICLE_DETECTED"}

EmptyStats == [total |-> 0, authorized |-> 0, unauthorized |-> 0, suspicious |-> 0]

\* the counter _increment_counters adds to besides the total
StatsCategory(etype) ==
    CASE etype = "STAFF_AUTHORIZED" -> "authorized"
      [] etype = "UNAUTHORIZED_PERSON" -> "unauthorized"
      [] etype = "RUNNING_DETECTED" -> "suspicious"
      [] OTHER -> "none"

\* _initialize_from_file on a log of events of today: the counters a fresh
\* StatsService starts with
RECURSIVE initialize_from_file(_)
initialize_from_file(file) ==
    IF file = <<>> THEN [today |-> EmptyStats, week_total |-> 0]
    ELSE LET before == initialize_from_file(SubSeq(file, 1, Len(file) - 1))
             category == StatsCategory(file[Len(file)])
             counted == [before.today EXCEPT !.total = @ + 1]
         IN  [today |-> IF category = "none" THEN counted
                        ELSE [counted EXCEPT ![category] = @ + 1],
              week_total |-> before.week_total + 1]

\* get_stats_summary without the hourly trend
get_stats_summary ==
    [today_total |-> stats_today.total, today_authorized |-> stats_today.authorized,
     today_unauthorized |-> stats_today.unauthorized,
     today_suspicious |-> stats_today.suspicious, week_total |-> week_total]

\* a worker thread starts log_event(event_type, data)
LogEventBegins ==
    /\ Len(log_threads) < MaxLogCalls
    /\ \E event_type \in LoggedTypes :
         log_threads' = Append(log_threads,
                               [pc |-> "week_load", type |-> event_type, loaded |-> 0])
    /\ UNCHANGED <<stats_today, week_total, stats_file, stats_lock>>
    /\ UNCHANGED <<hybridVars, personVars, trackerVars, behaviorVars, vehicleVars, runningVars, loopVars, stageVars, broadcastVars, repeatVars, rulesVars, gatherVars, cameraVars, embedVars>>

\* the counter a thread is about to load or store
CounterOf(thread) ==
    IF thread.pc \in {"total_load", "total_store"} THEN "total"
    ELSE StatsCategory(thread.type)

\* the step after the store to the total: elif chain of _increment_counters
AfterTotal(thread) ==
    IF StatsCategory(thread.type) = "none" THEN "lock" ELSE "category_load"

\* thread k goes on to pc with the value it has loaded
ThreadGoes(k, pc, loaded) ==
    log_threads' = [log_threads EXCEPT ![k] = [@ EXCEPT !.pc = pc, !.loaded = loaded]]

\* one step of thread k of log_event: self.week_total += 1,
\* _increment_counters, then the append to the file under the lock
LogEventStep(k) ==
    /\ \/ /\ log_threads[k].pc = "week_load"
          /\ ThreadGoes(k, "week_store", week_total)
          /\ UNCHANGED <<stats_today, week_total, stats_file, stats_lock>>
       \/ /\ log_threads[k].pc = "week_store"
          /\ week_total' = log_threads[k].loaded + 1
          /\ ThreadGoes(k, "total_load", 0)
          /\ UNCHANGED <<stats_today, stats_file, stats_lock>>
       \/ /\ log_threads[k].pc \in {"total_load", "category_load"}
          /\ ThreadGoes(k, IF log_threads[k].pc = "total_load" THEN "total_store"
                           ELSE "category_store",
                        stats_today[CounterOf(log_threads[k])])
          /\ UNCHANGED <<stats_today, week_total, stats_file, stats_lock>>
       \/ /\ log_threads[k].pc \in {"total_store", "category_store"}
          /\ stats_today' = [stats_today EXCEPT
                                ![CounterOf(log_threads[k])] = log_threads[k].loaded + 1]
          /\ ThreadGoes(k, IF log_threads[k].pc = "total_store"
                           THEN AfterTotal(log_threads[k]) ELSE "lock", 0)
          /\ UNCHANGED <<week_total, stats_file, stats_lock>>
       \/ /\ log_threads[k].pc = "lock"
          /\ stats_lock = 0
          /\ stats_lock' = k
          /\ ThreadGoes(k, "write", 0)
          /\ UNCHANGED <<stats_today, week_total, stats_file>>
       \/ /\ log_threads[k].pc = "write"
          /\ stats_file' = Append(stats_file, log_threads[k].type)
          /\ stats_lock' = 0
          /\ ThreadGoes(k, "done", 0)
          /\ UNCHANGED <<stats_today, week_total>>
    /\ UNCHANGED <<hybridVars, personVars, trackerVars, behaviorVars, vehicleVars, runningVars, loopVars, stageVars, broadcastVars, repeatVars, rulesVars, gatherVars, cameraVars, embedVars>>

StatsNext ==
    \/ LogEventBegins
    \/ \E k \in 1..Len(log_threads) : LogEventStep(k)

\* A person who leaves: the frames show person 1 or nobody, 0.1 s or 5.1 s
\* (more than the 5 s a state outlives its person) after the frame before
MaxGraceFrames == 3

GraceGaps == {1, PERSON_GRACE + 1}

GraceVisible == {<<>>, <<1>>}

\* one pass of the main loop up to the gather of _process_persons: the state
\* merge with its clean-up, then the tasks of the persons of the frame
GraceFrame ==
    \E gap \in GraceGaps, visible \in GraceVisible :
        /\ pending = {}
        /\ behavior_tasks = <<>>
        /\ frames < MaxGraceFrames
        /\ LET current_time == now + gap
               ids == AssignDisplayIds(
                          SelectSeq(visible, LAMBDA t : t \notin DOMAIN person_states),
                          person_id_map, next_person_id)
               states == UpdatedPersonStates(person_states, visible, ids.map,
                                             current_time)
           IN  /\ now' = current_time
               /\ person_id_map' = ids.map
               /\ next_person_id' = ids.next
               /\ person_states' = states
               /\ pending' = {t \in Range(visible) :
                                 NeedsAuth(states[t], current_time)}
               /\ behavior_tasks' = [t \in Range(visible) |-> StandingBox(0)]
        /\ frames' = frames + 1
        /\ last_check' = NoCheck
        /\ UNCHANGED <<stranger_embeddings, person_alerts, person_positions>>
        /\ UNCHANGED <<hybridVars, trackerVars, behaviorVars, vehicleVars, loopVars, stageVars, broadcastVars, repeatVars, rulesVars, statsVars, gatherVars, cameraVars, embedVars>>

GraceNext ==
    \/ GraceFrame
    \/ \E p \in TrackIds : CheckAuthorizationSkipped(p)
    \/ \E p \in TrackIds : CheckAuthorization(p)
    \/ \E p \in TrackIds : CheckPersonBehavior(p)

\* The gather of _process_persons: asyncio.gather(*tasks) hands the first
\* exception of a task to _process_persons at once and leaves the other
\* tasks running. The tasks a raised gather left behind are let finish
\* before the next frame is taken.
MaxGatherFrames == 3

\* one pass of the main loop up to the gather of _process_persons
GatherFrame ==
    \E gap \in RunningGaps, bbox \in RunningBoxes :
        /\ person_gather # "waiting"
        /\ pending = {}
        /\ behavior_tasks = <<>>
        /\ frames < MaxGatherFrames
        /\ LET current_time == now + gap
               visible == <<1>>
               ids == AssignDisplayIds(
                          SelectSeq(visible, LAMBDA t : t \notin DOMAIN person_states),
                          person_id_map, next_person_id)
               states == UpdatedPersonStates(person_states, visible, ids.map,
                                             current_time)
           IN  /\ now' = current_time
               /\ person_id_map' = ids.map
               /\ next_person_id' = ids.next
               /\ person_states' = states
               /\ pending' = {t \in Range(visible) :
                                 NeedsAuth(states[t], current_time)}
               /\ behavior_tasks' = [t \in Range(visible) |-> bbox]
        /\ frames' = frames + 1
        /\ last_check' = NoCheck
        /\ person_gather' = "waiting"
        /\ UNCHANGED <<stranger_embeddings, person_alerts, person_positions>>
        /\ UNCHANGED <<hybridVars, trackerVars, behaviorVars, vehicleVars, loopVars, stageVars, broadcastVars, repeatVars, rulesVars, statsVars, cameraVars, embedVars>>

\* _check_person_behavior of person p when _generate_person_alert raises
\* (the snapshot cannot be written, the alert cannot be stored): the
\* position is recorded, no alert is stored, and the gather raises
PersonAlertRaises(p) ==
    /\ person_gather = "waiting"
    /\ p \in DOMAIN behavior_tasks
    /\ \E r \in {calculate_speed(p, behavior_tasks[p], now, person_positions)} :
        /\ PersonSpeedExceeds(r.speed)
        /\ now - person_states[p].last_behavior_alert > ALERT_COOLDOWN_BEHAVIOR
        /\ person_positions' = r.track_history
    /\ behavior_tasks' = [t \in DOMAIN behavior_tasks \ {p} |-> behavior_tasks[t]]
    /\ person_gather' = "raised"
    /\ UNCHANGED <<now, person_states, stranger_embeddings, person_id_map, next_person_id,
                   person_alerts, pending, last_check, frames>>
    /\ UNCHANGED <<hybridVars, trackerVars, behaviorVars, vehicleVars, loopVars, stageVars, broadcastVars, repeatVars, rulesVars, statsVars, cameraVars, embedVars>>

\* every task of the frame is done: the gather returns
GatherReturns ==
    /\ person_gather = "waiting"
    /\ pending = {}
    /\ behavior_tasks = <<>>
    /\ person_gather' = "returned"
    /\ UNCHANGED <<personVars, runningVars, cameraVars, embedVars>>
    /\ UNCHANGED <<hybridVars, trackerVars, behaviorVars, vehicleVars, loopVars, stageVars, broadcastVars, repeatVars, rulesVars, statsVars, cameraVars, embedVars>>

\* an authorization task that returns before its first await has returned
\* before the behaviour task of its person, created after it, starts
GatherNext ==
    \/ GatherFrame
    \/ \E p \in TrackIds : p \in DOMAIN behavior_tasks /\ CheckAuthorizationSkipped(p)
    \/ \E p \in TrackIds : CheckAuthorization(p)
    \/ \E p \in TrackIds : CheckPersonBehavior(p)
    \/ \E p \in TrackIds : PersonAlertRaises(p)
    \/ GatherReturns

RunningNext ==
    \/ RunningFrame
    \/ \E p \in TrackIds : CheckAuthorizationSkipped(p)
    \/ \E p \in TrackIds : CheckAuthorization(p)
    \/ \E p \in TrackIds : CheckPersonBehavior(p)

-----------------------------------------------------------------------------
(* Specifications *)

\* the authorization function is not under test
IdleCall == [points |-> <<>>, hasArc |-> FALSE, failed |-> FALSE, called |-> TRUE]

-----------------------------------------------------------------------------
(* CameraStream (Backend/app/services/camera.py): start(), stop() and the  *)
(* capture thread running _update. cap is "none" for None, "open" for a    *)
(* capture that holds the device, "closed" for one that does not (never    *)
(* opened, or released). thread and stop are the positions of the capture  *)
(* thread and of the stop() call; a step is one statement, the two run in  *)
(* different threads. reopened records that the device was opened after    *)
(* stop() returned.                                                         *)

\* bound: frames the capture thread stores
MaxCameraFrames == 2

\* CameraStream.__init__
NewCameraStream ==
    [running |-> FALSE, cap |-> "none", thread |-> "none", stop |-> "idle",
     frames |-> 0, reopened |-> FALSE]

\* start(): running is set and the thread is started
CameraStart ==
    /\ ~camera_stream.running
    /\ camera_stream.thread = "none"
    /\ camera_stream' = [camera_stream EXCEPT !.running = TRUE, !.thread = "while"]
    /\ UNCHANGED <<hybridVars, personVars, trackerVars, behaviorVars, vehicleVars, runningVars, loopVars, stageVars, broadcastVars, repeatVars, rulesVars, statsVars, gatherVars, embedVars>>

\* stop(), line 35: self.running = False
StopClearsRunning ==
    /\ camera_stream.stop = "idle"
    /\ camera_stream.thread # "none"
    /\ camera_stream' = [camera_stream EXCEPT !.running = FALSE, !.stop = "test"]
    /\ UNCHANGED <<hybridVars, personVars, trackerVars, behaviorVars, vehicleVars, runningVars, loopVars, stageVars, broadcastVars, repeatVars, rulesVars, statsVars, gatherVars, embedVars>>

\* stop(), line 37: if self.cap
StopTestsCap ==
    /\ camera_stream.stop = "test"
    /\ camera_stream' = [camera_stream EXCEPT
           !.stop = IF camera_stream.cap = "none" THEN "returned" ELSE "release"]
    /\ UNCHANGED <<hybridVars, personVars, trackerVars, behaviorVars, vehicleVars, runningVars, loopVars, stageVars, broadcastVars, repeatVars, rulesVars, statsVars, gatherVars, embedVars>>

\* stop(), line 38: self.cap.release()
StopReleases ==
    /\ camera_stream.stop = "release"
    /\ camera_stream' = [camera_stream EXCEPT !.cap = "closed", !.stop = "clear"]
    /\ UNCHANGED <<hybridVars, personVars, trackerVars, behaviorVars, vehicleVars, runningVars, loopVars, stageVars, broadcastVars, repeatVars, rulesVars, statsVars, gatherVars, embedVars>>

\* stop(), line 39: self.cap = None, and the call returns
StopClearsCap ==
    /\ camera_stream.stop = "clear"
    /\ camera_stream' = [camera_stream EXCEPT !.cap = "none", !.stop = "returned"]
    /\ UNCHANGED <<hybridVars, personVars, trackerVars, behaviorVars, vehicleVars, runningVars, loopVars, stageVars, broadcastVars, repeatVars, rulesVars, statsVars, gatherVars, embedVars>>

\* _update, line 73: while self.running
ThreadTestsRunning ==
    /\ camera_stream.thread = "while"
    /\ camera_stream' = [camera_stream EXCEPT
           !.thread = IF camera_stream.running THEN "test" ELSE "ended"]
    /\ UNCHANGED <<hybridVars, personVars, trackerVars, behaviorVars, vehicleVars, runningVars, loopVars, stageVars, broadcastVars, repeatVars, rulesVars, statsVars, gatherVars, embedVars>>

\* _update, line 74: not self.cap
ThreadTestsCap ==
    /\ camera_stream.thread = "test"
    /\ camera_stream' = [camera_stream EXCEPT
           !.thread = IF camera_stream.cap = "none" THEN "connect" ELSE "isOpened"]
    /\ UNCHANGED <<hybridVars, personVars, trackerVars, behaviorVars, vehicleVars, runningVars, loopVars, stageVars, broadcastVars, repeatVars, rulesVars, statsVars, gatherVars, embedVars>>

\* _update, line 74: not self.cap.isOpened(); on None the call raises
\* AttributeError and the thread ends
ThreadTestsOpened ==
    /\ camera_stream.thread = "isOpened"
    /\ camera_stream' = [camera_stream EXCEPT
           !.thread = CASE camera_stream.cap = "none" -> "raised"
                        [] camera_stream.cap = "open" -> "read"
                        [] OTHER -> "connect"]
    /\ UNCHANGED <<hybridVars, personVars, trackerVars, behaviorVars, vehicleVars, runningVars, loopVars, stageVars, broadcastVars, repeatVars, rulesVars, statsVars, gatherVars, embedVars>>

\* _connect, lines 49-50: the capture it finds is released
ConnectReleases ==
    /\ camera_stream.thread = "connect"
    /\ camera_stream' = [camera_stream EXCEPT
           !.cap = IF @ = "none" THEN "none" ELSE "closed",
           !.thread = "open"]
    /\ UNCHANGED <<hybridVars, personVars, trackerVars, behaviorVars, vehicleVars, runningVars, loopVars, stageVars, broadcastVars, repeatVars, rulesVars, statsVars, gatherVars, embedVars>>

\* _connect, lines 53-70: self.cap = cv2.VideoCapture(self.src), which opens
\* the device or fails; on failure _update sleeps and continues
ConnectOpens ==
    \E opened \in BOOLEAN :
        /\ camera_stream.thread = "open"
        /\ camera_stream' = [camera_stream EXCEPT
               !.cap = IF opened THEN "open" ELSE "closed",
               !.thread = IF opened THEN "read" ELSE "while",
               !.reopened = @ \/ (opened /\ camera_stream.stop = "returned")]
        /\ UNCHANGED <<hybridVars, personVars, trackerVars, behaviorVars, vehicleVars, runningVars, loopVars, stageVars, broadcastVars, repeatVars, rulesVars, statsVars, gatherVars, embedVars>>

\* _update, line 79: ret, frame = self.cap.read(); on None the call raises
\* AttributeError, a capture that is not open returns ret False
ThreadReads ==
    \E ret \in BOOLEAN :
        /\ camera_stream.thread = "read"
        /\ ret => /\ camera_stream.cap = "open"
                  /\ camera_stream.frames < MaxCameraFrames
        /\ camera_stream' = [camera_stream EXCEPT
               !.thread = CASE camera_stream.cap = "none" -> "raised"
                            [] ret -> "store"
                            [] OTHER -> "release"]
        /\ UNCHANGED <<hybridVars, personVars, trackerVars, behaviorVars, vehicleVars, runningVars, loopVars, stageVars, broadcastVars, repeatVars, rulesVars, statsVars, gatherVars, embedVars>>

\* _update, lines 82-84: self.cap.release() after a failed read, sleep, continue
ThreadReleases ==
    /\ camera_stream.thread = "release"
    /\ camera_stream' = [camera_stream EXCEPT
           !.cap = IF @ = "none" THEN "none" ELSE "closed",
           !.thread = IF camera_stream.cap = "none" THEN "raised" ELSE "while"]
    /\ UNCHANGED <<hybridVars, personVars, trackerVars, behaviorVars, vehicleVars, runningVars, loopVars, stageVars, broadcastVars, repeatVars, rulesVars, statsVars, gatherVars, embedVars>>

\* _update, lines 86-93: the frame is stored, the thread sleeps
ThreadStores ==
    /\ camera_stream.thread = "store"
    /\ camera_stream' = [camera_stream EXCEPT !.frames = @ + 1, !.thread = "while"]
    /\ UNCHANGED <<hybridVars, personVars, trackerVars, behaviorVars, vehicleVars, runningVars, loopVars, stageVars, broadcastVars, repeatVars, rulesVars, statsVars, gatherVars, embedVars>>

CameraNext ==
    \/ CameraStart
    \/ StopClearsRunning
    \/ StopTestsCap
    \/ StopReleases
    \/ StopClearsCap
    \/ ThreadTestsRunning
    \/ ThreadTestsCap
    \/ ThreadTestsOpened
    \/ ConnectReleases
    \/ ConnectOpens
    \/ ThreadReads
    \/ ThreadReleases
    \/ ThreadStores

-----------------------------------------------------------------------------
(* AsyncEmbedEngine (client/events/event_engine.py): start(), enqueue(),   *)
(* stop() and the worker task. queue is the number of items in the         *)
(* asyncio.Queue, unfinished its count of unfinished tasks (put adds one,  *)
(* task_done takes one away, join returns at zero). worker is the position *)
(* of the worker coroutine: "none" before start(), "created" until it runs *)
(* first, "get" waiting in queue.get(), "post" waiting for the answer to   *)
(* an item, "ended" after the coroutine returned. The coroutines run on    *)
(* one event loop: a step runs from one suspension to the next. stop is    *)
(* the position of the stop() call.                                        *)

\* bound: items that are enqueued
MaxEnqueued == 4

\* AsyncEmbedEngine.__init__; enqueued and failed count the put calls and
\* the items whose post raised
NewEmbedEngine ==
    [running |-> FALSE, queue |-> 0, unfinished |-> 0, worker |-> "none",
     stop |-> "idle", enqueued |-> 0, failed |-> 0]

\* start(): self.running = True, asyncio.create_task(self.worker())
EmbedStart ==
    /\ embed_engine.worker = "none"
    /\ embed_engine.stop = "idle"
    /\ embed_engine' = [embed_engine EXCEPT !.running = TRUE, !.worker = "created"]
    /\ UNCHANGED <<hybridVars, personVars, trackerVars, behaviorVars, vehicleVars, runningVars, loopVars, stageVars, broadcastVars, repeatVars, rulesVars, statsVars, gatherVars, cameraVars>>

\* enqueue(): await self.queue.put(...) on the unbounded queue
Enqueue ==
    /\ embed_engine.stop = "idle"
    /\ embed_engine.enqueued < MaxEnqueued
    /\ embed_engine' = [embed_engine EXCEPT !.queue = @ + 1, !.unfinished = @ + 1,
                                            !.enqueued = @ + 1]
    /\ UNCHANGED <<hybridVars, personVars, trackerVars, behaviorVars, vehicleVars, runningVars, loopVars, stageVars, broadcastVars, repeatVars, rulesVars, statsVars, gatherVars, cameraVars>>

\* worker(), lines 53-54, run from the loop test to the next await that
\* suspends: the coroutine returns when running is false, takes an item and
\* posts it when the queue holds one (queue.get() does not suspend then),
\* waits in queue.get() when the queue is empty
WorkerLoop(engine) ==
    IF ~engine.running THEN [engine EXCEPT !.worker = "ended"]
    ELSE IF engine.queue > 0
         THEN [engine EXCEPT !.queue = @ - 1, !.worker = "post"]
         ELSE [engine EXCEPT !.worker = "get"]

\* worker(): the task runs first, enters the client's context and the loop
WorkerBegins ==
    /\ embed_engine.worker = "created"
    /\ embed_engine' = WorkerLoop(embed_engine)
    /\ UNCHANGED <<hybridVars, personVars, trackerVars, behaviorVars, vehicleVars, runningVars, loopVars, stageVars, broadcastVars, repeatVars, rulesVars, statsVars, gatherVars, cameraVars>>

\* worker(), lines 54-63: the worker waiting in queue.get() is woken by a
\* put, gets the item and posts it
WorkerGets ==
    /\ embed_engine.worker = "get"
    /\ embed_engine.queue > 0
    /\ embed_engine' = [embed_engine EXCEPT !.queue = @ - 1, !.worker = "post"]
    /\ UNCHANGED <<hybridVars, personVars, trackerVars, behaviorVars, vehicleVars, runningVars, loopVars, stageVars, broadcastVars, repeatVars, rulesVars, statsVars, gatherVars, cameraVars>>

\* worker(), lines 63-68 and 53-54: the post returns or raises (the exception
\* is printed), self.queue.task_done(), then the loop again
WorkerFinishesItem ==
    \E raised \in BOOLEAN :
        /\ embed_engine.worker = "post"
        /\ embed_engine' = WorkerLoop([embed_engine EXCEPT
               !.unfinished = @ - 1,
               !.failed = IF raised THEN @ + 1 ELSE @])
        /\ UNCHANGED <<hybridVars, personVars, trackerVars, behaviorVars, vehicleVars, runningVars, loopVars, stageVars, broadcastVars, repeatVars, rulesVars, statsVars, gatherVars, cameraVars>>

\* stop(): self.running = False, await self.queue.join(), which returns at
\* once when no task is unfinished
EmbedStop ==
    /\ embed_engine.stop = "idle"
    /\ embed_engine.worker # "none"
    /\ embed_engine' = [embed_engine EXCEPT
           !.running = FALSE,
           !.stop = IF embed_engine.unfinished = 0 THEN "returned" ELSE "join"]
    /\ UNCHANGED <<hybridVars, personVars, trackerVars, behaviorVars, vehicleVars, runningVars, loopVars, stageVars, broadcastVars, repeatVars, rulesVars, statsVars, gatherVars, cameraVars>>

\* queue.join() returns: the last task_done set the queue's _finished event
JoinReturns ==
    /\ embed_engine.stop = "join"
    /\ embed_engine.unfinished = 0
    /\ embed_engine' = [embed_engine EXCEPT !.stop = "returned"]
    /\ UNCHANGED <<hybridVars, personVars, trackerVars, behaviorVars, vehicleVars, runningVars, loopVars, stageVars, broadcastVars, repeatVars, rulesVars, statsVars, gatherVars, cameraVars>>

EmbedNext ==
    \/ EmbedStart
    \/ Enqueue
    \/ WorkerBegins
    \/ WorkerGets
    \/ WorkerFinishesItem
    \/ EmbedStop
    \/ JoinReturns

\* SpecHybrid: the arguments of one authorize_person_hybrid call (the store's
\* answer to the query, whether a precise embedding is passed, whether the
\* query raises), then the call
HybridInit ==
    /\ h_in \in [points : StoreResponses(MaxPoints), hasArc : BOOLEAN, failed : BOOLEAN,
                 called : {FALSE}]
    /\ h_out = NoResult
    /\ now = T0
    /\ person_states = <<>>
    /\ stranger_embeddings = <<>>
    /\ person_id_map = <<>>
    /\ next_person_id = 1
    /\ person_alerts = <<>>
    /\ pending = {}
    /\ last_check = NoCheck
    /\ frames = 0
    /\ tracks = <<>>
    /\ next_uuid = 0
    /\ frame_time = T0
    /\ tracked = <<>>
    /\ assigned = <<>>
    /\ calls = 0
    /\ engine_time = T0
    /\ engine_trackers = <<>>
    /\ pose_history = <<>>
    /\ last_cleanup = T0
    /\ last_crowd_alert_time = 0
    /\ last_behavior_check = 0
    /\ is_aggressive = {}
    /\ behavior_alerts = <<>>
    /\ last_analysis = NoAnalysis
    /\ behavior_steps = 0
    /\ aggression_log = <<>>
    /\ vehicle_time = T0
    /\ vehicle_positions = <<>>
    /\ alert_cooldowns = <<>>
    /\ vehicle_alerts = <<>>
    /\ last_vehicle_run = NoVehicleRun
    /\ vehicle_frames = 0
    /\ person_positions = <<>>
    /\ behavior_tasks = <<>>
    /\ running = FALSE
    /\ loop_tasks = <<>>
    /\ camera_running = FALSE
    /\ last_call = "none"
    /\ iteration = [stage |-> "none", due |-> FALSE, ran |-> {}, swallowed |-> {}, raised |-> "none"]
    /\ finished = <<>>
    /\ bc_clients = {}
    /\ bc_lock = "free"
    /\ bc_gone = {}
    /\ bc_call = [pc |-> "idle", clients |-> {}, pending |-> {}, delivered |-> {},
                  removing |-> {}, failed |-> {}, left |-> {}]
    /\ bc_calls = 0
    /\ h_calls = 0
    /\ h_first = [out |-> NoResult, points |-> <<>>]
    /\ rule_call = [called |-> FALSE, vehicle |-> <<>>, raised |-> FALSE, events |-> <<>>]
    /\ stats_today = [total |-> 0, authorized |-> 0, unauthorized |-> 0, suspicious |-> 0]
    /\ week_total = 0
    /\ stats_file = <<>>
    /\ stats_lock = 0
    /\ log_threads = <<>>
    /\ person_gather = "none"
    /\ camera_stream = NewCameraStream
    /\ embed_engine = NewEmbedEngine

\* the service and the tracker after construction
ServiceInit ==
    /\ h_in = IdleCall
    /\ h_out = NoResult
    /\ now = T0
    /\ person_states = <<>>
    /\ stranger_embeddings = <<>>
    /\ person_id_map = <<>>
    /\ next_person_id = 1
    /\ person_alerts = <<>>
    /\ pending = {}
    /\ last_check = NoCheck
    /\ frames = 0
    /\ tracks = <<>>
    /\ next_uuid = 0
    /\ frame_time = T0
    /\ tracked = <<>>
    /\ assigned = <<>>
    /\ calls = 0
    /\ engine_time = T0
    /\ engine_trackers = <<>>
    /\ pose_history = <<>>
    /\ last_cleanup = T0
    /\ last_crowd_alert_time = 0
    /\ last_behavior_check = 0
    /\ is_aggressive = {}
    /\ behavior_alerts = <<>>
    /\ last_analysis = NoAnalysis
    /\ behavior_steps = 0
    /\ aggression_log = <<>>
    /\ vehicle_time = T0
    /\ vehicle_positions = <<>>
    /\ alert_cooldowns = <<>>
    /\ vehicle_alerts = <<>>
    /\ last_vehicle_run = NoVehicleRun
    /\ vehicle_frames = 0
    /\ person_positions = <<>>
    /\ behavior_tasks = <<>>
    /\ running = FALSE
    /\ loop_tasks = <<>>
    /\ camera_running = FALSE
    /\ last_call = "none"
    /\ iteration = [stage |-> "none", due |-> FALSE, ran |-> {}, swallowed |-> {}, raised |-> "none"]
    /\ finished = <<>>
    /\ bc_clients = {}
    /\ bc_lock = "free"
    /\ bc_gone = {}
    /\ bc_call = [pc |-> "idle", clients |-> {}, pending |-> {}, delivered |-> {},
                  removing |-> {}, failed |-> {}, left |-> {}]
    /\ bc_calls = 0
    /\ h_calls = 0
    /\ h_first = [out |-> NoResult, points |-> <<>>]
    /\ rule_call = [called |-> FALSE, vehicle |-> <<>>, raised |-> FALSE, events |-> <<>>]
    /\ stats_today = [total |-> 0, authorized |-> 0, unauthorized |-> 0, suspicious |-> 0]
    /\ week_total = 0
    /\ stats_file = <<>>
    /\ stats_lock = 0
    /\ log_threads = <<>>
    /\ person_gather = "none"
    /\ camera_stream = NewCameraStream
    /\ embed_engine = NewEmbedEngine

HybridNext == HybridCall

SpecHybrid == HybridInit /\ [][HybridNext]_vars

SpecRepeat == HybridInit /\ [][HybridRepeat]_vars

SpecPerson == ServiceInit /\ [][PersonNext]_vars

SpecTracker == ServiceInit /\ [][TrackerNext]_vars

SpecBehavior == ServiceInit /\ [][BehaviorNext]_vars

SpecAggression == ServiceInit /\ [][AggressionNext]_vars

SpecLoitering == ServiceInit /\ [][LoiterNext]_vars

SpecRunning == ServiceInit /\ [][RunningNext]_vars

SpecGrace == ServiceInit /\ [][GraceNext]_vars

SpecGather == ServiceInit /\ [][GatherNext]_vars

SpecHistory == ServiceInit /\ [][HistoryUpdate]_vars

SpecCamera == ServiceInit /\ [][CameraNext]_vars

SpecEmbed == ServiceInit /\ [][EmbedNext]_vars

SpecStranger == ServiceInit /\ [][StrangerNext]_vars

SpecLifecycle == ServiceInit /\ [][LifecycleNext]_vars

SpecLoop == ServiceInit /\ [][LoopNext]_vars

SpecStages == ServiceInit /\ [][StagesNext]_vars

SpecBroadcast == ServiceInit /\ [][BroadcastNext]_vars

SpecVehicle == ServiceInit /\ [][VehicleNext]_vars

SpecRules == ServiceInit /\ [][EvaluateRules]_vars

SpecStats == ServiceInit /\ [][StatsNext]_vars

-----------------------------------------------------------------------------
(* Claims about authorize_person_hybrid (SpecHybrid) *)

h_decided == h_in.called /\ h_results # <<>>

\* C1: whenever a precise embedding is supplied the coarse path is not
\* taken: a top candidate whose precise similarity is below 0.55 (zero and
\* negative included) is unauthorized whatever its coarse similarity, and a
\* result authorized by the coarse method implies no precise embedding.
C1_PreciseSuppliedNeverCoarse ==
    /\ (h_decided /\ h_in.hasArc /\ h_top.arcface_score < ARCFACE_AUTH_THRESHOLD)
           => ~h_out.authorized
    /\ (h_in.called /\ h_out.authorized /\ h_out.method = "clip")
           => ~h_in.hasArc

\* C2: with a precise embedding and a top candidate flagged authorized,
\* precise >= 0.55 and coarse >= 0.75 give authorized by the precise method
\* with confidence equal to the precise similarity; precise >= 0.55 and
\* coarse < 0.75 give unauthorized.
C2_PreciseWithSanityFloor ==
    (h_decided /\ h_in.hasArc /\ h_top.authorized
        /\ h_top.arcface_score >= ARCFACE_AUTH_THRESHOLD)
    => IF h_top.clip_score >= CLIP_SANITY_THRESHOLD
       THEN /\ h_out.authorized
            /\ h_out.method = "arcface"
            /\ h_out.score = h_top.arcface_score
       ELSE ~h_out.authorized

\* the scenario 0.60 / 0.92 decided at the sanity floor's other side too
C2_Witness ==
    /\ h_decided /\ h_in.hasArc /\ h_top.authorized
    /\ h_top.arcface_score = 600 /\ h_top.clip_score = 920
    /\ h_out.authorized /\ h_out.score = 600

-----------------------------------------------------------------------------
(* Claims about the person stage (SpecPerson) *)

\* C3: when the store query fails during a person's authorization check the
\* cycle yields no verdict: the person's authorization state stays what it
\* was before the check and no UNAUTHORIZED_PERSON alert is emitted.
C3_StoreFailureNoVerdict ==
    (last_check.ran /\ last_check.store_failed)
    => /\ person_states[last_check.id].authorized = last_check.previous_status
       /\ ~last_check.alerted

-----------------------------------------------------------------------------
(* Claims about SimpleTracker.update (SpecTracker) *)

TrackIdsOf(trks) == {trks[k].id : k \in 1..Len(trks)}

\* C4: in every update call the assignment is one-to-one: no track id is
\* attached to two detections, no detection is assigned to two tracks, and
\* every returned detection carries a track id that is in the track table
\* when the call returns.
C4_OneToOneAssignment ==
    /\ \A i, j \in 1..Len(tracked) :
           i # j => tracked[i].track_id # tracked[j].track_id
    /\ \A i, j \in 1..Len(assigned) :
           i # j => /\ assigned[i][1] # assigned[j][1]
                    /\ assigned[i][2] # assigned[j][2]
    /\ \A i \in 1..Len(tracked) :
           /\ tracked[i].track_id # 0
           /\ tracked[i].track_id \in TrackIdsOf(tracks)
           /\ <<tracked[i].track_id, i>> \in Range(assigned)

\* a call with two detections, one continuing an older track, one new
C4_Witness ==
    /\ Len(tracked) = 2
    /\ \E k, l \in 1..Len(tracks) :
           /\ tracks[k].id = tracked[1].track_id
           /\ tracks[l].id = tracked[2].track_id
           /\ tracks[k].first_seen < frame_time
           /\ tracks[l].first_seen = frame_time

\* the tracker has seen one entity only, one detection in the latest call
OneEntitySoFar ==
    /\ next_uuid = 1 /\ Len(tracks) = 1 /\ Len(tracked) = 1
    /\ tracked[1].track_id = tracks[1].id

OverlapsEnough(a, b) == FracGE(iou(a, b), IOU_THRESHOLD_NUM, IOU_THRESHOLD_DEN)

\* C5 as stated: a single entity whose box overlaps the previous one with
\* IoU >= iou_threshold or whose centre lies within max_distance (at most
\* max_distance) of the previous centre, in calls at most max_age apart,
\* keeps its track id and no second track is created.
C5_StableIdWithinDistance ==
    [][(/\ OneEntitySoFar
        /\ calls' = calls + 1
        /\ Len(tracked') = 1
        /\ frame_time' - frame_time <= MAX_AGE
        /\ \/ OverlapsEnough(tracked[1].bbox, tracked'[1].bbox)
           \/ Dist2(bbox_center(tracked[1].bbox), bbox_center(tracked'[1].bbox))
                  <= 4 * MAX_DISTANCE * MAX_DISTANCE)
       => (tracked'[1].track_id = tracked[1].track_id /\ next_uuid' = next_uuid)]_vars

\* C5 amended: the same with the centre strictly less than max_distance
\* from the previous centre.
C5_StableIdBelowDistance ==
    [][(/\ OneEntitySoFar
        /\ calls' = calls + 1
        /\ Len(tracked') = 1
        /\ frame_time' - frame_time <= MAX_AGE
        /\ \/ OverlapsEnough(tracked[1].bbox, tracked'[1].bbox)
           \/ Dist2(bbox_center(tracked[1].bbox), bbox_center(tracked'[1].bbox))
                  < 4 * MAX_DISTANCE * MAX_DISTANCE)
       => (tracked'[1].track_id = tracked[1].track_id /\ next_uuid' = next_uuid)]_vars

\* the entity was followed by the centroid fallback: its box moved to one
\* that does not overlap enough
C5_Witness ==
    /\ OneEntitySoFar
    /\ calls >= 2
    /\ Len(tracks[1].history) >= 2
    /\ tracks[1].history[1][2] = bbox_center(<<0, 0, 40, 120>>)
    /\ tracks[1].history[2][2] = bbox_center(<<15, 50, 25, 70>>)

\* C6: a detection is never assigned to a track whose last_seen lies more
\* than max_age before the call's timestamp, also in the very call in which
\* the old track expires.
C6_NoResurrection ==
    [][\A i \in 1..Len(tracked') : \A k \in 1..Len(tracks) :
           (calls' = calls + 1 /\ tracked'[i].track_id = tracks[k].id)
           => frame_time' - tracks[k].last_seen <= MAX_AGE]_vars

\* the detections that were unassigned when the track at position k of the
\* old table was processed: those of the pairs inserted before its own pair
\* and before the pairs of later tracks
TakenBefore(k) ==
    {assigned'[j][2] : j \in {j \in 1..Len(assigned') :
        \E l \in 1..(k - 1) : tracks[l].id = assigned'[j][1]}}

IouCandidates(k) ==
    {i \in 1..Len(tracked') :
        /\ i \notin TakenBefore(k)
        /\ OverlapsEnough(tracks[k].bbox, tracked'[i].bbox)}

\* C7: a track that has an unassigned detection with IoU >= iou_threshold is
\* matched to the unassigned detection of highest IoU, never to a nearer one
\* of lower IoU; the centroid fallback serves a track only when no
\* unassigned detection reaches iou_threshold.
C7_IouBeforeCentroid ==
    [][calls' = calls + 1 =>
       \A k \in 1..Len(tracks) :
           IouCandidates(k) # {} =>
               \E i \in IouCandidates(k) :
                   /\ <<tracks[k].id, i>> \in Range(assigned')
                   /\ \A j \in IouCandidates(k) :
                          ~FracGT(iou(tracks[k].bbox, tracked'[j].bbox),
                                  iou(tracks[k].bbox, tracked'[i].bbox))]_vars

\* a track at <<0, 0, 40, 120>> took the shifted box although the small box
\* around its centre was nearer; the small box became a new track
C7_Witness ==
    /\ Len(tracked) = 2
    /\ \E k, l \in 1..Len(tracks) : \E i, j \in 1..2 :
           /\ Len(tracks[k].history) = 2
           /\ tracks[k].history[1][2] = bbox_center(<<0, 0, 40, 120>>)
           /\ tracked[i] = [bbox |-> <<5, 5, 45, 125>>, track_id |-> tracks[k].id]
           /\ tracked[j] = [bbox |-> <<15, 50, 25, 70>>, track_id |-> tracks[l].id]
           /\ tracks[l].first_seen = frame_time

-----------------------------------------------------------------------------
(* Claims about the behaviour alerts (SpecBehavior) *)

PerTrackTypes == {"LOITERING", "RUNNING", "FALL_DETECTED", "AGGRESSIVE_BEHAVIOR",
                  "FIGHT_DETECTED"}

\* C8: two alerts the orchestrator emits for the same per-track behaviour
\* event type and the same track id are at least the behaviour cooldown
\* window apart: a second identical event inside the window is not emitted.
C8_PerTrackAlertCooldown ==
    \A i, j \in 1..Len(behavior_alerts) :
        ( /\ i < j
          /\ behavior_alerts[i].type \in PerTrackTypes
          /\ behavior_alerts[j].type = behavior_alerts[i].type
          /\ behavior_alerts[j].track_id = behavior_alerts[i].track_id )
        => behavior_alerts[j].timestamp - behavior_alerts[i].timestamp
             >= ALERT_COOLDOWN_BEHAVIOR

IsCrowd(e) == e.type = "CROWD_ALERT"

\* the crowd events before the latest analyze_frame call
EarlierCrowdAlerts ==
    SelectSeq(behavior_alerts,
              LAMBDA a : IsCrowd(a) /\ a.timestamp < last_analysis.time)

\* 60 s or more have passed since the previous crowd event, if there is one
CrowdEventDue ==
    \A i \in 1..Len(EarlierCrowdAlerts) :
        last_analysis.time - EarlierCrowdAlerts[i].timestamp >= CROWD_ALERT_COOLDOWN

\* the mean distance between the centres of the latest detections, over all
\* pairs, is below the limit (in pixels)
MeanPairwiseDistanceBelow(limit) ==
    LET dets == last_analysis.detections
        pairs == {p \in (1..Len(dets)) \X (1..Len(dets)) : p[1] < p[2]}
        centers == [i \in 1..Len(dets) |->
                       <<dets[i].bbox[1] + dets[i].bbox[3],
                         dets[i].bbox[2] + dets[i].bbox[4]>>]
    IN  pairs # {} /\ PairDistances(centers, pairs) < 2 * limit * Cardinality(pairs)

\* C9: analyze_frame emits at most one crowd event per 60 s: a frame with at
\* least CROWD_PERSON_THRESHOLD detections yields exactly one crowd event,
\* flagged clustered exactly when the mean pairwise centre distance is below
\* 150 px, if 60 s or more have passed since the previous crowd event, and
\* none if less than 60 s have passed.
C9_CrowdEventOncePerMinute ==
    /\ \A i, j \in 1..Len(behavior_alerts) :
          (i < j /\ IsCrowd(behavior_alerts[i]) /\ IsCrowd(behavior_alerts[j]))
          => behavior_alerts[j].timestamp - behavior_alerts[i].timestamp
               >= CROWD_ALERT_COOLDOWN
    /\ last_analysis.ran =>
          LET crowd == SelectSeq(last_analysis.events, IsCrowd)
          IN  IF Len(last_analysis.detections) >= CROWD_PERSON_THRESHOLD
                 /\ CrowdEventDue
              THEN /\ Len(crowd) = 1
                   /\ crowd[1].is_clustered = MeanPairwiseDistanceBelow(150)
                   /\ crowd[1].person_count = Len(last_analysis.detections)
              ELSE crowd = <<>>

\* a frame of three persons less than 60 s after a clustered crowd event
\* has yielded no crowd event
C9_Witness ==
    /\ last_analysis.ran
    /\ Len(last_analysis.detections) >= CROWD_PERSON_THRESHOLD
    /\ ~CrowdEventDue
    /\ \E i \in 1..Len(EarlierCrowdAlerts) : EarlierCrowdAlerts[i].is_clustered
    /\ SelectSeq(last_analysis.events, IsCrowd) = <<>>

-----------------------------------------------------------------------------
(* Claims about the vehicle alerts (SpecVehicle) *)

SameVehicleKey(a, b) == a.vehicle_id = b.vehicle_id /\ a.type = b.type

\* the alerts of the key of the produced event p emitted before the latest
\* _process_vehicles call
EarlierVehicleAlerts(p) ==
    {i \in 1..last_vehicle_run.previous_alerts : SameVehicleKey(vehicle_alerts[i], p)}

TrackEntries(id) == SelectSeq(aggression_log, LAMBDA e : e.track_id = id)

LoggedTracks == {aggression_log[n].track_id : n \in 1..Len(aggression_log)}

\* entries n - MIN_HITS + 1 .. n of a track come from MIN_HITS consecutive calls
ConsecutiveCalls(entries, n) ==
    /\ n >= MIN_HITS
    /\ entries[n].step - entries[n - MIN_HITS + 1].step = MIN_HITS - 1

LastHits(n) == (n - MIN_HITS + 1)..n

\* C11: no AGGRESSIVE_BEHAVIOR or FIGHT_DETECTED event is emitted for a track
\* unless evaluate_aggression found its wrist speed at or above
\* ARM_SPEED_THRESHOLD in that call and the MIN_HITS - 1 calls before it, and
\* an evaluation below the threshold leaves the hit counter at 0.
C11_NoAggressionBeforeMinHits ==
    \A id \in LoggedTracks :
        LET entries == TrackEntries(id)
        IN  \A n \in 1..Len(entries) :
                /\ entries[n].event # "none" =>
                      /\ ConsecutiveCalls(entries, n)
                      /\ \A k \in LastHits(n) : entries[k].evaluated /\ entries[k].fast
                /\ (entries[n].evaluated /\ ~entries[n].fast) => entries[n].hits = 0

\* a track was evaluated at or above the threshold without an event, and in
\* a later call below the threshold, which left its counter at 0
C11_Witness ==
    \E id \in LoggedTracks :
        LET entries == TrackEntries(id)
        IN  \E n \in 1..Len(entries), m \in 1..Len(entries) :
                /\ n < m
                /\ entries[n].evaluated /\ entries[n].fast
                /\ entries[n].hits >= 1 /\ entries[n].event = "none"
                /\ entries[m].evaluated /\ ~entries[m].fast /\ entries[m].hits = 0

\* C12: a track whose pose was reliable and whose wrist speed was at or above
\* the threshold in MIN_HITS consecutive analyze_frame calls, with another
\* active track within CLOSE_DISTANCE elevated as well, gets FIGHT_DETECTED
\* in the last of these calls.
C12_FightOnFifteenthCall ==
    \A id \in LoggedTracks :
        LET entries == TrackEntries(id)
        IN  \A n \in 1..Len(entries) :
                ( /\ ConsecutiveCalls(entries, n)
                  /\ \A k \in LastHits(n) :
                        /\ entries[k].reliable /\ entries[k].fast
                        /\ entries[k].evaluated /\ entries[k].neighbour_fast )
                => entries[n].event = "FIGHT_DETECTED"

\* C13: a track whose pose was reliable and whose wrist speed was at or above
\* the threshold in MIN_HITS consecutive analyze_frame calls, with no
\* elevated track nearby, gets AGGRESSIVE_BEHAVIOR as soon as these calls
\* span MIN_DURATION, also when it is the only person in the frame.
C13_AggressiveBehaviorAlone ==
    \A id \in LoggedTracks :
        LET entries == TrackEntries(id)
        IN  \A n \in 1..Len(entries) :
                ( /\ ConsecutiveCalls(entries, n)
                  /\ \A k \in LastHits(n) :
                        /\ entries[k].reliable /\ entries[k].fast
                        /\ ~entries[k].neighbour_fast
                  /\ entries[n].time - entries[n - MIN_HITS + 1].time >= MIN_DURATION )
                => entries[n].event = "AGGRESSIVE_BEHAVIOR"

\* ---- loitering ----

LoiteringEvents ==
    {j \in 1..Len(last_analysis.events) : last_analysis.events[j].type = "LOITERING"}

\* the engine's tracker of a track
EngineTracker(id) ==
    engine_trackers[CHOOSE k \in 1..Len(engine_trackers) : engine_trackers[k].id = id]

\* C14: analyze_frame emits no LOITERING event for a track that was first
\* seen less than LOITERING_THRESHOLD_SECS before the call.
C14_NoLoiteringBeforeThreshold ==
    \A j \in LoiteringEvents :
        last_analysis.time - EngineTracker(last_analysis.events[j].track_id).first_seen
            >= LOITERING_THRESHOLD_SECS

\* LOITERING is emitted for a track first seen exactly 300 s before
C14_Witness ==
    \E j \in LoiteringEvents :
        last_analysis.time - EngineTracker(last_analysis.events[j].track_id).first_seen
            = LOITERING_THRESHOLD_SECS

\* the positions of a tracker recorded in the last LOITERING_THRESHOLD_SECS
\* before time t, with the position held when that period began
PositionsSince(trk, t) ==
    SelectSeq(trk.positions, LAMBDA p : p[3] >= t - LOITERING_THRESHOLD_SECS)

\* C15: LOITERING is emitted only for a track that has been stationary for at
\* least LOITERING_THRESHOLD_SECS: one that moved more than the pixel
\* threshold at some time in the last LOITERING_THRESHOLD_SECS does not
\* trigger it, however still it was in its latest samples.
C15_LoiteringOnlyWhenStationary ==
    \A j \in LoiteringEvents :
        LET trk == EngineTracker(last_analysis.events[j].track_id)
        IN  PathLength(PositionsSince(trk, last_analysis.time)) < 2 * STATIONARY_PIXELS

\* ---- running ----

\* distance over elapsed time of the position samples calculate_speed keeps
\* (the latest SPEED_HISTORY), px/s
SampledSpeed(positions) ==
    IF Len(positions) >= 2
    THEN [num |-> TravelledDistance(positions) * 10,
          den |-> 2 * (positions[Len(positions)][2] - positions[1][2])]
    ELSE ZeroSpeed

\* the running alerts raised by the task that has just run
FreshRunningAlerts ==
    {i \in 1..Len(person_alerts) :
        /\ person_alerts[i].type = "RUNNING_DETECTED"
        /\ person_alerts[i].timestamp = now
        /\ person_alerts[i].person_id \in DOMAIN person_positions
        /\ person_alerts[i].person_id \notin DOMAIN behavior_tasks}

\* C16: a running alert is raised for a person only when the velocity over
\* the person's last 5 position samples exceeds RUNNING_VELOCITY_THRESHOLD
\* (200 px/s).
C16_RunningOnlyAboveThreshold ==
    \A i \in FreshRunningAlerts :
        FracGT(SampledSpeed(person_positions[person_alerts[i].person_id]),
               Whole(RUNNING_VELOCITY_THRESHOLD))

\* ---- stranger cache ----

\* the cache entries whose similarity with the embedding is above 0.85
MatchingStrangers(cache, embedding) ==
    {i \in 1..Len(cache) : Dot(embedding, cache[i].embedding) > STRANGER_SIMILARITY}

\* the step is an authorization check of person p that reached a verdict
IsCheckOf(p) ==
    /\ p \in pending /\ p \notin pending'
    /\ last_check'.ran /\ last_check'.id = p

\* C17: on an unauthorized verdict, if the coarse embedding has similarity
\* above 0.85 with a cache entry, the person is flagged returning stranger,
\* that entry's timestamp becomes the current time, no entry is added, no
\* UNAUTHORIZED_PERSON alert is emitted and the person is unauthorized;
\* otherwise exactly one entry holding the embedding is added to the cache.
C17_ReturningStrangerOrNewEntry ==
    [][\A p \in TrackIds :
          (IsCheckOf(p) /\ ~last_check'.verdict) =>
              LET e == person_states'[p].embedding
                  matches == MatchingStrangers(stranger_embeddings, e)
                  added == [embedding |-> e, timestamp |-> now]
              IN  IF matches # {}
                  THEN /\ person_states'[p].is_returning_stranger
                       /\ person_states'[p].authorized = "unauthorized"
                       /\ \E i \in matches :
                             stranger_embeddings' =
                                 [stranger_embeddings EXCEPT ![i].timestamp = now]
                       /\ person_alerts' = person_alerts
                  ELSE /\ person_states'[p].authorized = "unauthorized"
                       /\ Len(stranger_embeddings') >= 1
                       /\ stranger_embeddings'[Len(stranger_embeddings')] = added
                       /\ Len(stranger_embeddings') <= Len(stranger_embeddings) + 1
                       /\ \A k \in 1..(Len(stranger_embeddings') - 1) :
                             /\ stranger_embeddings'[k] \in Range(stranger_embeddings)
                             /\ stranger_embeddings'[k].embedding # e
    ]_vars

\* a person seen for the first time got an unauthorized verdict with the
\* embedding another person had put into the cache at an earlier time: it
\* is flagged returning stranger without an alert and the only entry of the
\* cache carries the current time
C17_Witness ==
    /\ last_check.ran /\ ~last_check.verdict /\ ~last_check.alerted
    /\ last_check.previous_status = "scanning"
    /\ last_check.id \in DOMAIN person_states
    /\ person_states[last_check.id].is_returning_stranger
    /\ person_states[last_check.id].authorized = "unauthorized"
    /\ Len(stranger_embeddings) = 1
    /\ stranger_embeddings[1].timestamp = now
    /\ stranger_embeddings[1].embedding = person_states[last_check.id].embedding
    /\ \E q \in DOMAIN person_states \ {last_check.id} :
          /\ person_states[q].authorized = "unauthorized"
          /\ person_states[q].embedding = stranger_embeddings[1].embedding
          /\ person_states[q].last_auth_check < now

\* C18: at every authorization check the stranger cache holds no entry whose
\* timestamp lies STRANGER_RETENTION (3600 s) or more in the past, so that
\* no such entry is matched as a returning stranger.
C18_StrangerCacheBoundedByAge ==
    pending # {} =>
        \A i \in 1..Len(stranger_embeddings) :
            now - stranger_embeddings[i].timestamp < STRANGER_RETENTION

\* ---- person state and track ----

\* the ids of the tracks the person tracker holds
HeldTracks(trks) == {trks[k].id : k \in 1..Len(trks)}

\* C19: while the person tracker holds track T, the person state of T is
\* neither deleted nor re-initialised: its first_seen does not change and a
\* resolved verdict does not return to scanning.
C19_StateLivesAsLongAsTrack ==
    [][\A T \in TrackIds :
          (T \in HeldTracks(tracks) /\ T \in HeldTracks(tracks')
             /\ T \in DOMAIN person_states) =>
              /\ T \in DOMAIN person_states'
              /\ person_states'[T].first_seen = person_states[T].first_seen
              /\ person_states[T].authorized # "scanning" =>
                     person_states'[T].authorized # "scanning"
    ]_vars

\* ---- start, stop and the main loop ----

\* the tasks that are inside an iteration of _main_loop or will begin one
\* when they run next
ActiveLoops ==
    {k \in 1..Len(loop_tasks) :
        \/ loop_tasks[k].pc = "stage"
        \/ loop_tasks[k].pc = "head" /\ running}

\* C20: whatever the interleaving of start(), stop() and the loop, at most
\* one task runs the main loop, so no two frames are in the pipeline at the
\* same time.
C20_SingleMainLoop == Cardinality(ActiveLoops) <= 1

\* every task created by start() has returned
AllLoopsExited == \A k \in 1..Len(loop_tasks) : loop_tasks[k].pc = "done"

\* C21: once stop() was called with no start() after it and the main loop
\* has exited, the camera capture is not running, also when stop() came
\* while the task created by start() was still loading the models.
C21_StoppedMeansReleased ==
    (last_call = "stop" /\ AllLoopsExited) => ~camera_running

\* ---- exceptions in the main loop ----

\* C22: an exception raised in a stage of an iteration never ends the loop:
\* the task stays in the loop and leaves it only at the while test, with
\* running cleared.
C22_ExceptionNeverEndsLoop ==
    [][(Len(loop_tasks) >= 1 /\ loop_tasks[1].pc \in {"head", "stage"}) =>
          /\ loop_tasks'[1].pc \in {"head", "stage", "done"}
          /\ loop_tasks'[1].pc = "done" =>
                (loop_tasks[1].pc = "head" /\ ~running /\ ~running')
    ]_vars

\* an iteration ended in the except clause, and with running still set the
\* iteration after it ran all its stages
C22_Witness ==
    /\ running
    /\ Len(finished) >= 2
    /\ \E n \in 1..(Len(finished) - 1) :
          /\ finished[n].raised # "none"
          /\ finished[n + 1].raised = "none"
          /\ "annotate" \in finished[n + 1].ran

\* C23: when the rule evaluation of a vehicle raises, behaviour analysis
\* (when it is due) and annotation still run for the frame.
C23_VehicleFailureIsolated ==
    \A n \in 1..Len(finished) :
        finished[n].raised = "vehicles" =>
            /\ "annotate" \in finished[n].ran
            /\ finished[n].due => "behavior" \in finished[n].ran

\* ---- broadcaster ----

\* C24: a broadcast_json call in progress can always take a step (it never
\* waits for its lock), and when it has returned every client of the call
\* was sent the message or had its send fail, every client that stayed
\* connected and whose send did not fail was sent the message, every client
\* whose send failed is out of the client set, and no client whose send
\* succeeded is out of it unless it was disconnected by its own route.
C24_BroadcastIsolatesFailures ==
    /\ bc_lock = "free"
    /\ bc_call.pc = "sending" => ENABLED BroadcastStep
    /\ bc_call.pc = "returned" =>
          /\ bc_call.delivered \cup bc_call.failed = bc_call.clients
          /\ bc_call.delivered \cap bc_call.failed = {}
          /\ bc_call.failed \cap bc_clients = {}
          /\ (bc_call.delivered \ bc_call.left) \subseteq bc_clients

\* a call returned after the send to one client failed and the send to
\* another succeeded
C24_Witness ==
    /\ bc_call.pc = "returned"
    /\ bc_call.failed # {}
    /\ bc_call.delivered \ bc_call.left # {}
    /\ Cardinality(bc_call.clients) = MaxSockets

ViolationTypes ==
    {"VEHICLE_RESTRICTED_AREA", "HEAVY_VEHICLE_CORRIDOR", "UNAUTHORIZED_PARKING",
     "OVER_SPEED_VEHICLE"}

RuleEventTypes == {rule_call.events[i].type : i \in 1..Len(rule_call.events)}

\* C26: a call of evaluate_vehicle_rules that returns (the confidence of
\* its vehicle is 0.35 or more) returns at least one event, and
\* VEHICLE_DETECTED is among the events exactly when no violation is.
C26_RulesResultNeverEmpty ==
    (rule_call.called /\ ~rule_call.raised) =>
        /\ rule_call.events # <<>>
        /\ ("VEHICLE_DETECTED" \in RuleEventTypes)
              <=> (RuleEventTypes \cap ViolationTypes = {})

\* C27: _process_vehicles evaluates the rules of every vehicle of every
\* frame without an exception, also when a vehicle was in the frame before.
C27_RulesEvaluatedEveryFrame ==
    last_vehicle_run.ran => ~last_vehicle_run.raised

\* C28: every event evaluate_vehicle_rules returns has the keys type,
\* severity, zone, vehicle_type and track_id.
C28_EventsCarryAllKeys ==
    rule_call.called =>
        \A i \in 1..Len(rule_call.events) :
            {"type", "severity", "zone", "vehicle_type", "track_id"}
                \subseteq DOMAIN rule_call.events[i]

\* ---- statistics ----

\* what get_stats_summary of a fresh StatsService returns for the log
RebuiltSummary ==
    LET fresh == initialize_from_file(stats_file)
    IN  [today_total |-> fresh.today.total, today_authorized |-> fresh.today.authorized,
         today_unauthorized |-> fresh.today.unauthorized,
         today_suspicious |-> fresh.today.suspicious, week_total |-> fresh.week_total]

\* C29: when every log_event call of the day has returned, the counters
\* get_stats_summary returns from memory are the ones a fresh StatsService
\* rebuilds from the event log.
C29_CountersMatchLog ==
    (\A k \in 1..Len(log_threads) : log_threads[k].pc = "done")
        => get_stats_summary = RebuiltSummary

\* ---- clean-up of a person who left ----

\* C30: a person whose state has been deleted has no position history left:
\* every id with an entry in person_positions has a state.
C30_EntriesDeletedWithState ==
    DOMAIN person_positions \subseteq DOMAIN person_states

\* ---- the gather of the person stage ----

\* C31: once control has left the person stage of a frame (the gather has
\* returned or raised), no task of that frame changes a person state or the
\* stranger cache: they change next when the next frame is taken.
C31_NoTaskOutlivesItsStage ==
    [][(person_gather \in {"returned", "raised"} /\ frames' = frames)
         => /\ person_states' = person_states
            /\ stranger_embeddings' = stranger_embeddings]_vars

\* ---- recheck intervals ----

\* C32: in every frame a visible person gets an authorization task exactly
\* when its state is scanning, or unauthorized and last checked 2 s ago or
\* more, or authorized and last checked 6 s ago or more; the interval of
\* the unauthorized is shorter than that of the authorized.
C32_RecheckIntervals ==
    [][frames' = frames + 1 =>
         /\ UNAUTH_RECHECK_INTERVAL < RE_AUTH_INTERVAL * 2
         /\ \A t \in DOMAIN person_states' :
               person_states'[t].last_seen = now' =>
                 (t \in pending' <=>
                    \/ person_states'[t].authorized = "scanning"
                    \/ /\ person_states'[t].authorized = "unauthorized"
                       /\ now' - person_states'[t].last_auth_check >= 20
                    \/ /\ person_states'[t].authorized = "authorized"
                       /\ now' - person_states'[t].last_auth_check >= 60)]_vars

\* a frame has given a task to an authorized person checked exactly 6 s
\* before and to an unauthorized person, both not yet rechecked
C32_Witness ==
    \E t, u \in pending :
        /\ person_states[t].authorized = "authorized"
        /\ now - person_states[t].last_auth_check = 60
        /\ person_states[u].authorized = "unauthorized"
        /\ now - person_states[u].last_auth_check >= 20

\* ---- track history ----

\* C33: a track's history never holds more than 30 samples.
C33_HistoryAtMostThirty ==
    \A k \in 1..Len(tracks) : Len(tracks[k].history) <= 30

\* ---- the alert of a new unauthorized person ----

\* the UNAUTHORIZED_PERSON alerts of person p
UnauthorizedAlerts(p) ==
    {i \in 1..Len(person_alerts) :
        /\ person_alerts[i].type = "UNAUTHORIZED_PERSON"
        /\ person_alerts[i].person_id = p}

\* C34: a person who stayed visible through the whole watch, whose first
\* verdict was unauthorized and who is the only person there (no other
\* person's cache entry to match) has caused an UNAUTHORIZED_PERSON alert
\* when the recheck of the last frame has reached its verdict.
C34_UnauthorizedEventuallyAlerted ==
    (frames = MaxStrangerFrames /\ pending = {} /\ last_check.ran) =>
        \A p \in DOMAIN person_states :
            person_states[p].first_verdict = "unauthorized"
                => UnauthorizedAlerts(p) # {}

\* C35: a track is flagged returning stranger only by an entry of the cache
\* that the check of a different track inserted: a flagged track is not the
\* only track that was ever seen.
C35_ReturningOnlyByAnotherTrack ==
    \A p \in DOMAIN person_states :
        person_states[p].is_returning_stranger
            => DOMAIN person_id_map \ {p} # {}

\* C36: an UNAUTHORIZED_PERSON alert is emitted only by a check of a person
\* whose verdict before the check was not unauthorized and who is not flagged
\* returning stranger; a check that finds a person unauthorized again, right
\* after an unauthorized verdict, emits no alert.
C36_AlertOnlyOnNewUnauthorized ==
    [][Len(person_alerts') > Len(person_alerts)
         => LET alert == person_alerts'[Len(person_alerts')]
                p == alert.person_id
            IN  /\ Len(person_alerts') = Len(person_alerts) + 1
                /\ alert.type = "UNAUTHORIZED_PERSON"
                /\ p \in DOMAIN person_states
                /\ person_states[p].authorized # "unauthorized"
                /\ person_states'[p].authorized = "unauthorized"
                /\ ~person_states'[p].is_returning_stranger]_vars

\* a person that was alerted has been found unauthorized again by the check
\* that ran last, with a new embedding that matches no cache entry
C36_Witness ==
    /\ last_check.ran
    /\ ~last_check.verdict
    /\ last_check.previous_status = "unauthorized"
    /\ last_check.id \in DOMAIN person_states
    /\ ~person_states[last_check.id].is_returning_stranger
    /\ now - person_states[last_check.id].first_seen >= ALERT_GRACE
    /\ Cardinality({i \in 1..Len(person_alerts) :
                       person_alerts[i].person_id = last_check.id}) = 1

\* C37: in an update call a track that takes a detection by the centroid
\* fallback (its box overlaps the detection with an IoU below iou_threshold)
\* never takes a detection that a track later in the table overlaps with an
\* IoU of at least iou_threshold.
C37_FallbackLeavesOverlappedDetections ==
    [][calls' = calls + 1
         => \A a, b \in 1..Len(tracks), j \in 1..Len(assigned') :
                ( /\ a < b
                  /\ assigned'[j][1] = tracks[a].id
                  /\ ~FracGE(iou(tracks[a].bbox, tracked'[assigned'[j][2]].bbox),
                             IOU_THRESHOLD_NUM, IOU_THRESHOLD_DEN) )
                => ~FracGE(iou(tracks[b].bbox, tracked'[assigned'[j][2]].bbox),
                           IOU_THRESHOLD_NUM, IOU_THRESHOLD_DEN)]_vars

\* C38: the display ids are unique per track id and strictly increasing in
\* the order of first sighting, the state of a track carries the display id
\* of its track id, and a track id keeps its display id in every step, also
\* when its state is deleted and created again.
C38_DisplayIdsStable ==
    [][/\ \A t \in DOMAIN person_id_map :
              /\ t \in DOMAIN person_id_map'
              /\ person_id_map'[t] = person_id_map[t]
       /\ \A t \in DOMAIN person_id_map' \ DOMAIN person_id_map :
              \A u \in DOMAIN person_id_map :
                  person_id_map'[t] > person_id_map[u]
       /\ \A t, u \in DOMAIN person_id_map' :
              t # u => person_id_map'[t] # person_id_map'[u]
       /\ \A t \in DOMAIN person_states' :
              /\ t \in DOMAIN person_id_map'
              /\ person_states'[t].display_id = person_id_map'[t]]_vars

\* the state of a track was created in this frame, while a track with a
\* greater display id has an older state: the first track was seen before,
\* its state was deleted and is created again
C38_Witness ==
    \E t, u \in DOMAIN person_states :
        /\ person_states[t].first_seen = now
        /\ person_states[u].first_seen < now
        /\ person_states[u].display_id > person_states[t].display_id

\* C39: once stop() has returned the capture thread does not open the capture
\* device again, and when stop() has returned and the thread has ended the
\* capture handle is released.
C39_StopReleasesTheCamera ==
    /\ ~camera_stream.reopened
    /\ (camera_stream.stop = "returned"
          /\ camera_stream.thread \in {"ended", "raised"})
       => camera_stream.cap # "open"

\* C40: stop() terminates: it never waits in queue.join() for unfinished
\* items when the worker has ended, as no step can then finish an item.
C40_StopNeverWaitsForEndedWorker ==
    ~( /\ embed_engine.stop = "join"
       /\ embed_engine.worker = "ended"
       /\ embed_engine.unfinished > 0 )

=============================================================================
